---------------------------- MODULE Spec2Model ----------------------------
(***************************************************************************)
(* A model of github.com/unixpickle/hmm: forward-backward smoothing,       *)
(* Viterbi decoding and the Baum-Welch trainer.                            *)
(*                                                                         *)
(* Numbers.  The program works on float64 log-probabilities.  A log-value  *)
(* x is represented here by the exact rational exp(x), written <<n, d>>    *)
(* in lowest terms: -Inf is <<0, 1>>, the log-value 0 is <<1, 1>>.  Under  *)
(* this representation the float operations of the source become:         *)
(*     x + y        LogPlus(x, y)      (the product of the rationals)      *)
(*     x - y        LogMinus(x, y)     (the quotient)                      *)
(*     x < y        LogLess(x, y)      (exp is monotone)                   *)
(*     addLogs      the operator addLogs below, step by step               *)
(* Rounding is not modelled: every float operation is taken to be exact.   *)
(*                                                                         *)
(* Indices.  Go slices are 0-based and TLA+ sequences 1-based: the state   *)
(* index i of the model is the index i-1 of the source, and timestep t of  *)
(* the source is kept as t (0-based), the sequences being read at t+1.     *)
(***************************************************************************)
EXTENDS Integers, Sequences, FiniteSets, TLC

(***************************************************************************)
(* Bounds of the model.                                                    *)
(***************************************************************************)
NumStates == 2
NumObs == 2
MaxLen == 2
MaxParallelism == 2
GOMAXPROCS == 2
MaxData == 2

StateNames == <<"A", "B", "C", "D">>
ObsNames == <<"x", "y", "z">>
Nil == "nil"

AllStates == SubSeq(StateNames, 1, NumStates)
StateSet == {AllStates[i] : i \in 1..NumStates}
ObsSet == {ObsNames[i] : i \in 1..NumObs}

(***************************************************************************)
(* Log-values as exact rationals.  Each operation is a function on Rat:    *)
(* a function's arguments are evaluated once, to values, before it is      *)
(* applied, which keeps nested arithmetic linear in its size.  The         *)
(* operators are the names the rest of the model uses.                     *)
(***************************************************************************)
Rat == Nat \X Nat

gcd[a \in Nat, b \in Nat] == IF b = 0 THEN a ELSE gcd[b, a % b]
GCD(a, b) == gcd[a, b]

norm[n \in Nat, d \in Nat] ==
    LET g == gcd[n, d]
    IN  IF g = 0 THEN <<0, 0>> ELSE <<n \div g, d \div g>>
Norm(n, d) == norm[n, d]

NegInf == <<0, 1>>
LogZero == <<1, 1>>
PosInf == <<1, 0>>
NaN == <<0, 0>>

isNegInf[x \in Rat] == x[1] = 0 /\ x[2] # 0
IsNegInf(x) == isNegInf[x]

\* The product n1/d1 * n2/d2 in lowest terms, common factors taken out before
\* the multiplications.
mulFrac[n1 \in Nat, d1 \in Nat, n2 \in Nat, d2 \in Nat] ==
    LET g1 == gcd[n1, d2]
        g2 == gcd[n2, d1]
    IN  IF g1 = 0 \/ g2 = 0 THEN norm[n1 * n2, d1 * d2]
        ELSE norm[(n1 \div g1) * (n2 \div g2), (d1 \div g2) * (d2 \div g1)]

logPlus[x \in Rat, y \in Rat] == mulFrac[x[1], x[2], y[1], y[2]]
LogPlus(x, y) == logPlus[x, y]

logMinus[x \in Rat, y \in Rat] == mulFrac[x[1], x[2], y[2], y[1]]
LogMinus(x, y) == logMinus[x, y]

logLess[x \in Rat, y \in Rat] ==
    LET g == gcd[x[2], y[2]]
    IN  IF g = 0 THEN x[1] * y[2] < y[1] * x[2]
        ELSE x[1] * (y[2] \div g) < y[1] * (x[2] \div g)
LogLess(x, y) == logLess[x, y]

\* math.Log(math.Exp(a) + math.Exp(b))
logOfExpSum[a \in Rat, b \in Rat] ==
    LET g == gcd[a[2], b[2]]
    IN  IF g = 0 THEN norm[a[1] * b[2] + b[1] * a[2], a[2] * b[2]]
        ELSE norm[a[1] * (b[2] \div g) + b[1] * (a[2] \div g), (a[2] \div g) * b[2]]
LogOfExpSum(a, b) == logOfExpSum[a, b]

\* math.Max(x1, x2): +Inf when either is +Inf, else NaN when either is NaN.
mathMax[x1 \in Rat, x2 \in Rat] ==
    IF x1 = PosInf \/ x2 = PosInf THEN PosInf
    ELSE IF x1 = NaN \/ x2 = NaN THEN NaN
    ELSE IF logLess[x1, x2] THEN x2 ELSE x1

addLogsOf[x1 \in Rat, x2 \in Rat] ==
    LET max == mathMax[x1, x2]
    IN  IF IsNegInf(max)
        THEN max
        ELSE LogPlus(LogOfExpSum(LogMinus(x1, max), LogMinus(x2, max)), max)
addLogs(x1, x2) == addLogsOf[x1, x2]

\* F applied to the value of v, v being evaluated once.
Bind(v, F(_)) == CHOOSE r \in {F(x) : x \in {v}} : TRUE

(***************************************************************************)
(* Native Go maps are functions whose DOMAIN is the set of present keys.   *)
(***************************************************************************)
EmptyMap == [k \in {} |-> NegInf]

MapPut(m, k, v) == [x \in DOMAIN m \cup {k} |-> IF x = k THEN v ELSE m[x]]

RECURSIVE SetToSeq(_)
SetToSeq(S) ==
    IF S = {} THEN <<>>
    ELSE LET x == CHOOSE y \in S : TRUE IN <<x>> \o SetToSeq(S \ {x})

(***************************************************************************)
(* TabularEmitter.LogProbs: one value per queried state, -Inf for a pair   *)
(* the table does not list.                                                *)
(***************************************************************************)
LogProbs(t, o, states) ==
    [i \in 1..Len(states) |->
        IF states[i] \in DOMAIN t /\ o \in DOMAIN t[states[i]]
        THEN t[states[i]][o]
        ELSE NegInf]

(***************************************************************************)
(* hmmCache and fastStateMap (optimizations.go).                           *)
(***************************************************************************)
statesToIndices(h) ==
    [s \in {h.States[i] : i \in 1..Len(h.States)} |->
        CHOOSE i \in 1..Len(h.States) :
            /\ h.States[i] = s
            /\ \A j \in 1..Len(h.States) : h.States[j] = s => j <= i]

\* The order of the list is the iteration order of a Go map; every use of
\* it below except Viterbi's accumulates with AddLog, which is commutative
\* and associative in exact arithmetic, so one order stands for all.
fastTransitions(h, s2i) ==
    LET keys == SetToSeq(DOMAIN h.Transitions)
    IN  [k \in 1..Len(keys) |->
            [From |-> s2i[keys[k][1]],
             To |-> s2i[keys[k][2]],
             Prob |-> h.Transitions[keys[k]]]]

newHMMCache(h) ==
    LET s2i == statesToIndices(h)
    IN  [S2I |-> s2i, Transitions |-> fastTransitions(h, s2i)]

\* make([]float64, n) holds 0.0 everywhere: the log-value 0.
newFastStateMap(h) ==
    [values |-> [i \in 1..Len(h.States) |-> LogZero],
     present |-> [i \in 1..Len(h.States) |-> FALSE]]

newFastStateMapFrom(h, m) ==
    [values |-> [i \in 1..Len(h.States) |->
                    IF h.States[i] \in DOMAIN m THEN m[h.States[i]] ELSE LogZero],
     present |-> [i \in 1..Len(h.States) |-> h.States[i] \in DOMAIN m]]

Set(f, state, val) ==
    [values |-> [f.values EXCEPT ![state] = val],
     present |-> [f.present EXCEPT ![state] = TRUE]]

\* AddLog without the test for -Inf.
AddLogOfAlways(v) ==
    LET f == v[1]
        state == v[2]
        x == v[3]
    IN  IF f.present[state]
        THEN [f EXCEPT !.values[state] = addLogs(f.values[state], x)]
        ELSE [values |-> [f.values EXCEPT ![state] = x],
              present |-> [f.present EXCEPT ![state] = TRUE]]

AddLogOf(v) ==
    LET f == v[1]
        state == v[2]
        x == v[3]
    IN  IF ~IsNegInf(x)
        THEN IF f.present[state]
             THEN [f EXCEPT !.values[state] = addLogs(f.values[state], x)]
             ELSE [values |-> [f.values EXCEPT ![state] = x],
                   present |-> [f.present EXCEPT ![state] = TRUE]]
        ELSE f
AddLog(f, state, x) == Bind(<<f, state, x>>, AddLogOf)

AddAll(f, x) ==
    [f EXCEPT !.values =
        [i \in DOMAIN f.values |->
            IF f.present[i] THEN LogPlus(f.values[i], x) ELSE f.values[i]]]

\* The entries Iter visits, in index order.
IterKeys(f) == {i \in DOMAIN f.present : f.present[i]}

\* Map giving every index an entry, present or not.
MapOfAll(h, f) ==
    [s \in {h.States[i] : i \in DOMAIN f.present} |->
        f.values[CHOOSE i \in DOMAIN f.present : h.States[i] = s]]

Map(h, f) ==
    [s \in {h.States[i] : i \in IterKeys(f)} |->
        f.values[CHOOSE i \in IterKeys(f) : h.States[i] = s]]

\* -x of a log-value x
LogNeg(x) == LogMinus(LogZero, x)


(***************************************************************************)
(* The forward pass (fwd_bwd.go, forwardProbs): one loop iteration is the  *)
(* item it sends, fwdOutJoints, and the running distribution it leaves,    *)
(* fwdNewDist.                                                             *)
(***************************************************************************)
\* outJoints without the test for -Inf.
fwdOutJointsAll(h, distribution, o) ==
    LET emitProbs == LogProbs(h.Emitter, o, h.States)
        kept == IterKeys(distribution)
    IN  [s \in {h.States[i] : i \in kept} |->
            LET i == CHOOSE j \in kept : h.States[j] = s
            IN  LogPlus(distribution.values[i], emitProbs[i])]

fwdOutJoints(h, distribution, o) ==
    LET emitProbs == LogProbs(h.Emitter, o, h.States)
        kept == {i \in IterKeys(distribution) :
                    ~IsNegInf(LogPlus(distribution.values[i], emitProbs[i]))}
    IN  [s \in {h.States[i] : i \in kept} |->
            LET i == CHOOSE j \in kept : h.States[j] = s
            IN  LogPlus(distribution.values[i], emitProbs[i])]

RECURSIVE fwdFold(_, _, _, _, _)
fwdFold(trans, k, distribution, emitProbs, newDist) ==
    IF k > Len(trans) THEN newDist
    ELSE LET tr == trans[k]
         IN  IF ~distribution.present[tr.From]
             THEN fwdFold(trans, k + 1, distribution, emitProbs, newDist)
             ELSE LET destProb ==
                          LogPlus(LogPlus(distribution.values[tr.From], tr.Prob),
                                  emitProbs[tr.From])
                  IN  fwdFold(trans, k + 1, distribution, emitProbs,
                              AddLog(newDist, tr.To, destProb))

fwdNewDist(c, h, distribution, o) ==
    Bind(LogProbs(h.Emitter, o, h.States),
         LAMBDA emitProbs :
            fwdFold(c.Transitions, 1, distribution, emitProbs, newFastStateMap(h)))

fwdInitialDist(h) == newFastStateMapFrom(h, h.Init)

\* Every item forwardProbs sends for obs, in order.
RECURSIVE fwdItems(_, _, _, _, _)
fwdItems(c, h, obs, i, distribution) ==
    IF i > Len(obs) THEN <<>>
    ELSE <<fwdOutJoints(h, distribution, obs[i])>>
         \o Bind(fwdNewDist(c, h, distribution, obs[i]),
                 LAMBDA newDist : fwdItems(c, h, obs, i + 1, newDist))

forwardProbs(c, h, obs) ==
    Bind(fwdInitialDist(h), LAMBDA distribution : fwdItems(c, h, obs, 1, distribution))

(***************************************************************************)
(* The backward pass (backwardProbs, initialBackwardDist).                 *)
(***************************************************************************)
RECURSIVE initBwdFold(_, _, _, _)
initBwdFold(trans, k, terminalIdx, res) ==
    IF k > Len(trans) THEN res
    ELSE initBwdFold(trans, k + 1, terminalIdx,
             IF trans[k].To = terminalIdx /\ ~IsNegInf(trans[k].Prob)
             THEN Set(res, trans[k].From, trans[k].Prob)
             ELSE res)

RECURSIVE setAllZero(_, _)
setAllZero(res, i) ==
    IF i > Len(res.values) THEN res ELSE setAllZero(Set(res, i, LogZero), i + 1)

\* initialBackwardDist with the uniform branch's loop starting one state late.
initialBackwardDistSkipFirst(c, h) ==
    IF h.TerminalState = Nil
    THEN setAllZero(newFastStateMap(h), 2)
    ELSE initBwdFold(c.Transitions, 1, c.S2I[h.TerminalState], newFastStateMap(h))

initialBackwardDist(c, h) ==
    IF h.TerminalState = Nil
    THEN setAllZero(newFastStateMap(h), 1)
    ELSE initBwdFold(c.Transitions, 1, c.S2I[h.TerminalState], newFastStateMap(h))

RECURSIVE bwdFold(_, _, _, _, _)
bwdFold(trans, k, distribution, emitProbs, newDist) ==
    IF k > Len(trans) THEN newDist
    ELSE LET tr == trans[k]
         IN  IF ~distribution.present[tr.To]
             THEN bwdFold(trans, k + 1, distribution, emitProbs, newDist)
             ELSE LET prob ==
                          LogPlus(LogPlus(tr.Prob, distribution.values[tr.To]),
                                  emitProbs[tr.To])
                  IN  bwdFold(trans, k + 1, distribution, emitProbs,
                              AddLog(newDist, tr.From, prob))

bwdNewDist(c, h, distribution, o) ==
    Bind(LogProbs(h.Emitter, o, h.States),
         LAMBDA emitProbs :
            bwdFold(c.Transitions, 1, distribution, emitProbs, newFastStateMap(h)))

\* Every item backwardProbs sends, in order: the last timestep first.
RECURSIVE bwdItems(_, _, _, _, _)
bwdItems(c, h, obs, i, distribution) ==
    IF i < 1 THEN <<>>
    ELSE <<Map(h, distribution)>>
         \o Bind(bwdNewDist(c, h, distribution, obs[i]),
                 LAMBDA newDist : bwdItems(c, h, obs, i - 1, newDist))

backwardProbs(c, h, obs) ==
    Bind(initialBackwardDist(c, h),
         LAMBDA distribution : bwdItems(c, h, obs, Len(obs), distribution))

(***************************************************************************)
(* ForwardBackward: the value NewForwardBackward returns once both of its  *)
(* goroutines have drained their channels, and the queries on it.          *)
(***************************************************************************)
\* NewForwardBackward running neither pass for a model without states.
NewForwardBackwardSkipNoStates(h, obs) ==
    Bind(newHMMCache(h),
         LAMBDA c :
            [HMM |-> h, Obs |-> obs, cache |-> c,
             ForwardOut |-> IF Len(h.States) = 0 THEN <<>> ELSE forwardProbs(c, h, obs),
             BackwardOut |-> IF Len(h.States) = 0 THEN <<>> ELSE backwardProbs(c, h, obs)])

NewForwardBackward(h, obs) ==
    Bind(newHMMCache(h),
         LAMBDA c :
            [HMM |-> h, Obs |-> obs, cache |-> c,
             ForwardOut |-> forwardProbs(c, h, obs),
             BackwardOut |-> backwardProbs(c, h, obs)])

\* addLogs folded over the values of m at the keys of ks, from -Inf.
RECURSIVE sumLogs(_, _, _)
sumLogs(m, ks, acc) ==
    IF ks = {} THEN acc
    ELSE LET k == CHOOSE x \in ks : TRUE
         IN  sumLogs(m, ks \ {k}, addLogs(acc, m[k]))

\* Dist without its final loop, the division by P(X1,...,Xn).
DistUnnormalized(f, t) ==
    LET bwdDist == f.BackwardOut[Len(f.BackwardOut) - (t + 1) + 1]
        fwdDist == f.ForwardOut[t + 1]
        both == DOMAIN fwdDist \cap DOMAIN bwdDist
    IN  [s \in both |-> LogPlus(fwdDist[s], bwdDist[s])]

\* Dist reading BackwardOut at index t, without the reversal.
DistSameIndex(f, t) ==
    LET bwdDist == f.BackwardOut[t + 1]
        fwdDist == f.ForwardOut[t + 1]
        both == DOMAIN fwdDist \cap DOMAIN bwdDist
        joint == [s \in both |-> LogPlus(fwdDist[s], bwdDist[s])]
    IN  Bind(sumLogs(joint, both, NegInf),
             LAMBDA probsSum : [s \in both |-> LogMinus(joint[s], probsSum)])

Dist(f, t) ==
    LET bwdDist == f.BackwardOut[Len(f.BackwardOut) - (t + 1) + 1]
        fwdDist == f.ForwardOut[t + 1]
        both == DOMAIN fwdDist \cap DOMAIN bwdDist
        joint == [s \in both |-> LogPlus(fwdDist[s], bwdDist[s])]
    IN  Bind(sumLogs(joint, both, NegInf),
             LAMBDA probsSum : [s \in both |-> LogMinus(joint[s], probsSum)])


\* The method without its len(f.Obs) == 0 branch.
ForwardBackward_LogLikelihoodNoEmptyCase(f) ==
    LET fi == Len(f.ForwardOut) - 1
        reads == {<<"ForwardOut", fi>>, <<"BackwardOut", 0>>}
    IN  IF fi < 0 \/ Len(f.BackwardOut) = 0
        THEN [panic |-> TRUE, reads |-> reads, val |-> NaN]
        ELSE LET fwdDist == f.ForwardOut[fi + 1]
                 bwdDist == f.BackwardOut[1]
                 both == DOMAIN fwdDist \cap DOMAIN bwdDist
                 joint == [s \in both |-> LogPlus(fwdDist[s], bwdDist[s])]
             IN  [panic |-> FALSE, reads |-> reads,
                  val |-> sumLogs(joint, both, NegInf)]

\* The method (*ForwardBackward).LogLikelihood, with the slice elements it
\* reads: an index outside its slice is a run-time panic.
ForwardBackward_LogLikelihood(f) ==
    IF Len(f.Obs) = 0
    THEN [panic |-> FALSE, reads |-> {},
          val |-> IF f.HMM.TerminalState = Nil
                  THEN LogZero
                  ELSE IF f.HMM.TerminalState \in DOMAIN f.HMM.Init
                       THEN f.HMM.Init[f.HMM.TerminalState]
                       ELSE NegInf]
    ELSE LET fi == Len(f.ForwardOut) - 1
             reads == {<<"ForwardOut", fi>>, <<"BackwardOut", 0>>}
         IN  IF fi < 0 \/ Len(f.BackwardOut) = 0
             THEN [panic |-> TRUE, reads |-> reads, val |-> NaN]
             ELSE LET fwdDist == f.ForwardOut[fi + 1]
                      bwdDist == f.BackwardOut[1]
                      both == DOMAIN fwdDist \cap DOMAIN bwdDist
                      joint == [s \in both |-> LogPlus(fwdDist[s], bwdDist[s])]
                  IN  [panic |-> FALSE, reads |-> reads,
                       val |-> sumLogs(joint, both, NegInf)]

\* LogLikelihood(h, obs) summing the last forward distribution alone,
\* without the initial backward distribution.
LogLikelihoodForwardOnly(hm, o) ==
    IF Len(o) = 0
    THEN [panic |-> FALSE, reads |-> {},
          val |-> IF hm.TerminalState = Nil
                  THEN LogZero
                  ELSE IF hm.TerminalState \in DOMAIN hm.Init
                       THEN hm.Init[hm.TerminalState]
                       ELSE NegInf]
    ELSE LET cache == newHMMCache(hm)
             items == forwardProbs(cache, hm, o)
             lastFwdBwd == IF Len(items) = 0 THEN EmptyMap ELSE items[Len(items)]
         IN  [panic |-> FALSE, reads |-> {<<"forwardProbs", Len(items)>>},
              val |-> sumLogs(lastFwdBwd, DOMAIN lastFwdBwd, NegInf)]

\* The function LogLikelihood(h, obs), which runs the forward pass alone.
LogLikelihood(hm, o) ==
    IF Len(o) = 0
    THEN [panic |-> FALSE, reads |-> {},
          val |-> IF hm.TerminalState = Nil
                  THEN LogZero
                  ELSE IF hm.TerminalState \in DOMAIN hm.Init
                       THEN hm.Init[hm.TerminalState]
                       ELSE NegInf]
    ELSE LET cache == newHMMCache(hm)
             firstBwdFwd == Map(hm, initialBackwardDist(cache, hm))
             items == forwardProbs(cache, hm, o)
             lastFwdBwd == IF Len(items) = 0 THEN EmptyMap ELSE items[Len(items)]
             both == DOMAIN lastFwdBwd \cap DOMAIN firstBwdFwd
             joint == [s \in both |-> LogPlus(firstBwdFwd[s], lastFwdBwd[s])]
         IN  [panic |-> FALSE, reads |-> {<<"forwardProbs", Len(items)>>},
              val |-> sumLogs(joint, both, NegInf)]

(***************************************************************************)
(* Channels and the goroutines of forwardProbs and backwardProbs.  A       *)
(* channel is its buffer, its capacity and whether it is closed.  A        *)
(* producer is the goroutine that feeds a channel: its position ("none"    *)
(* when no goroutine was started, "run", "done"), its loop variable i, its *)
(* running distribution and the channel res.                               *)
(***************************************************************************)
NoFastMap == [values |-> <<>>, present |-> <<>>]
NoChan == [buf |-> <<>>, closed |-> FALSE, cap |-> 0]
NoProducer == [pc |-> "none", i |-> 0, distribution |-> NoFastMap, res |-> NoChan]

makeChan(n) == [buf |-> <<>>, closed |-> FALSE, cap |-> n]
closeChan(c) == [c EXCEPT !.closed = TRUE]

\* A send completes when the buffer has room; a receive takes the oldest
\* buffered item; a receive on a closed, empty channel reports the close.
CanSend(c) == ~c.closed /\ Len(c.buf) < c.cap
CanRecv(c) == Len(c.buf) > 0
RecvClosed(c) == Len(c.buf) = 0 /\ c.closed

\* forwardProbs with a result channel that holds two items.
forwardProbsGoCap2(c, h) ==
    [pc |-> "run", i |-> 0, distribution |-> fwdInitialDist(h), res |-> makeChan(2)]

\* forwardProbs up to its return: the channel and the goroutine it starts.
forwardProbsGo(c, h) ==
    [pc |-> "run", i |-> 0, distribution |-> fwdInitialDist(h), res |-> makeChan(1)]

\* One iteration of the goroutine's loop, i counting the observations done.
fwdSendStep(c, h, obs, p) ==
    [p EXCEPT !.res.buf = Append(@, fwdOutJoints(h, p.distribution, obs[p.i + 1])),
              !.distribution = fwdNewDist(c, h, p.distribution, obs[p.i + 1]),
              !.i = p.i + 1]

ForwardProbs(h, obs) ==
    IF Len(obs) = 0
    THEN [NoProducer EXCEPT !.res = closeChan(makeChan(0))]
    ELSE forwardProbsGo(newHMMCache(h), h)

\* backwardProbs: i is the loop's own index, len(obs)-1 down to 0.
backwardProbsGo(c, h, obs) ==
    [pc |-> "run", i |-> Len(obs) - 1,
     distribution |-> initialBackwardDist(c, h), res |-> makeChan(1)]

\* The iteration sending the distribution it has just computed.
bwdSendStepAfterUpdate(c, h, obs, p) ==
    [p EXCEPT !.res.buf = Append(@, Map(h, bwdNewDist(c, h, p.distribution, obs[p.i + 1]))),
              !.distribution = bwdNewDist(c, h, p.distribution, obs[p.i + 1]),
              !.i = p.i - 1]

bwdSendStep(c, h, obs, p) ==
    [p EXCEPT !.res.buf = Append(@, Map(h, p.distribution)),
              !.distribution = bwdNewDist(c, h, p.distribution, obs[p.i + 1]),
              !.i = p.i - 1]

BackwardProbs(h, obs) ==
    IF Len(obs) = 0
    THEN [NoProducer EXCEPT !.res = closeChan(makeChan(0))]
    ELSE backwardProbsGo(newHMMCache(h), h, obs)

(***************************************************************************)
(* fastCondDist (fwd_bwd.go): for each from-state index either nil or the  *)
(* distribution of the next state given that state at timestep t-1.        *)
(***************************************************************************)
NilFastMap == [nil |-> TRUE, m |-> NoFastMap]

fastCondDistPanics(f, t) == t = 0 \/ t > Len(f.Obs)

\* The body of the loop over the transitions, for the transition tr.
\* The loop body of CondDist without the restriction, at t == len(f.Obs), to
\* the transitions into the terminal state.
condDistStepAnyDestination(f, t, tr, prevDist, bwdDist, emissionDist, acc) ==
    LET atEnd == t = Len(f.Obs)
        skip == \/ ~prevDist.present[tr.From]
                \/ ~atEnd /\ ~bwdDist.present[tr.To]
        endProb ==
            IF atEnd
            THEN LogPlus(prevDist.values[tr.From], tr.Prob)
            ELSE LogPlus(LogPlus(prevDist.values[tr.From], tr.Prob),
                         LogPlus(bwdDist.values[tr.To], emissionDist[tr.To]))
    IN  IF skip THEN acc
        ELSE [totals |-> AddLog(acc.totals, tr.From, endProb),
              fromDists |->
                [acc.fromDists EXCEPT ![tr.From].m = AddLog(@, tr.To, endProb)]]

\* The loop body of fastCondDist adding to totals but not to fromDist.
condDistStepTotalsOnly(f, t, tr, prevDist, bwdDist, emissionDist, acc) ==
    LET atEnd == t = Len(f.Obs)
        skip == \/ ~prevDist.present[tr.From]
                \/ /\ atEnd
                   /\ f.HMM.TerminalState # Nil
                   /\ tr.To # f.cache.S2I[f.HMM.TerminalState]
                \/ ~atEnd /\ ~bwdDist.present[tr.To]
        endProb ==
            IF atEnd
            THEN LogPlus(prevDist.values[tr.From], tr.Prob)
            ELSE LogPlus(LogPlus(prevDist.values[tr.From], tr.Prob),
                         LogPlus(bwdDist.values[tr.To], emissionDist[tr.To]))
    IN  IF skip THEN acc
        ELSE [totals |-> AddLog(acc.totals, tr.From, endProb),
              fromDists |-> acc.fromDists]

condDistStep(f, t, tr, prevDist, bwdDist, emissionDist, acc) ==
    LET atEnd == t = Len(f.Obs)
        skip == \/ ~prevDist.present[tr.From]
                \/ /\ atEnd
                   /\ f.HMM.TerminalState # Nil
                   /\ tr.To # f.cache.S2I[f.HMM.TerminalState]
                \/ ~atEnd /\ ~bwdDist.present[tr.To]
        endProb ==
            IF atEnd
            THEN LogPlus(prevDist.values[tr.From], tr.Prob)
            ELSE LogPlus(LogPlus(prevDist.values[tr.From], tr.Prob),
                         LogPlus(bwdDist.values[tr.To], emissionDist[tr.To]))
    IN  IF skip THEN acc
        ELSE [totals |-> AddLog(acc.totals, tr.From, endProb),
              fromDists |->
                [acc.fromDists EXCEPT ![tr.From].m = AddLog(@, tr.To, endProb)]]

RECURSIVE condDistFold(_, _, _, _, _, _, _)
condDistFold(f, t, k, prevDist, bwdDist, emissionDist, acc) ==
    IF k > Len(f.cache.Transitions) THEN acc
    ELSE Bind(condDistStep(f, t, f.cache.Transitions[k], prevDist, bwdDist,
                           emissionDist, acc),
              LAMBDA next :
                condDistFold(f, t, k + 1, prevDist, bwdDist, emissionDist, next))

\* fastCondDist from the line after prevDist is built.
fastCondDistFrom(f, t, prevDist) ==
    LET hm == f.HMM
        atEnd == t = Len(f.Obs)
        bwdDist == IF atEnd THEN NoFastMap
                   ELSE newFastStateMapFrom(hm,
                            f.BackwardOut[Len(f.BackwardOut) - (t + 1) + 1])
        emissionDist == IF atEnd THEN <<>>
                        ELSE LogProbs(hm.Emitter, f.Obs[t + 1], hm.States)
        fromDists == [i \in 1..Len(hm.States) |->
                        IF prevDist.present[i]
                        THEN [nil |-> FALSE, m |-> newFastStateMap(hm)]
                        ELSE NilFastMap]
    IN  Bind(condDistFold(f, t, 1, prevDist, bwdDist, emissionDist,
                          [totals |-> newFastStateMap(hm), fromDists |-> fromDists]),
             LAMBDA acc :
                [i \in 1..Len(hm.States) |->
                    IF acc.totals.present[i]
                    THEN [acc.fromDists[i] EXCEPT
                            !.m = AddAll(@, LogNeg(acc.totals.values[i]))]
                    ELSE acc.fromDists[i]])

fastCondDist(f, t) ==
    Bind(newFastStateMapFrom(f.HMM, Dist(f, t - 1)),
         LAMBDA prevDist : fastCondDistFrom(f, t, prevDist))

(***************************************************************************)
(* CondDist.  A call either returns a map or is aborted by a panic: the    *)
(* explicit one, or the run-time panic of an index outside its slice.      *)
(* abort is "none" when the call returns.  CondDist below is the method of *)
(* fwd_bwd.go, which runs the loop itself; CondDistFromFast is the later   *)
(* form of the method, which converts the result of fastCondDist.          *)
(***************************************************************************)
\* Whether the 0-based index i is inside a slice of length n.
InSlice(i, n) == 0 <= i /\ i < n

\* The slice reads of Dist(t), in the order of the source.
DistIndexPanics(f, t) ==
    \/ ~InSlice(Len(f.BackwardOut) - (t + 1), Len(f.BackwardOut))
    \/ ~InSlice(t, Len(f.ForwardOut))

\* The reads made before the loop, after the check of t.
condDistIndexPanics(f, t) ==
    \/ /\ t < Len(f.Obs)
       /\ \/ ~InSlice(Len(f.BackwardOut) - (t + 1), Len(f.BackwardOut))
          \/ ~InSlice(t, Len(f.Obs))
    \/ DistIndexPanics(f, t - 1)

\* How the call ends when the check of t is left out.
condDistAbortNoCheck(f, t) ==
    IF condDistIndexPanics(f, t) THEN "index out of range" ELSE "none"

\* How the call ends.
condDistAbort(f, t) ==
    IF t = 0 \/ t > Len(f.Obs) THEN "time out of bounds"
    ELSE IF condDistIndexPanics(f, t) THEN "index out of range"
    ELSE "none"

NoCondDist == [s \in {} |-> EmptyMap]

\* The native map of the entries of a fastStateMap, each minus total.
subMapOf(hm, m, total) ==
    [s \in {hm.States[i] : i \in IterKeys(m)} |->
        LogMinus(m.values[CHOOSE i \in IterKeys(m) : hm.States[i] = s], total)]

\* The loop over the transitions, from empty totals and fromDists.
condDistJoints(f, t, prevDist) ==
    LET hm == f.HMM
        atEnd == t = Len(f.Obs)
        bwdDist == IF atEnd THEN NoFastMap
                   ELSE newFastStateMapFrom(hm,
                            f.BackwardOut[Len(f.BackwardOut) - (t + 1) + 1])
        emissionDist == IF atEnd THEN <<>>
                        ELSE LogProbs(hm.Emitter, f.Obs[t + 1], hm.States)
        fromDists == [i \in 1..Len(hm.States) |->
                        IF prevDist.present[i]
                        THEN [nil |-> FALSE, m |-> newFastStateMap(hm)]
                        ELSE NilFastMap]
    IN  condDistFold(f, t, 1, prevDist, bwdDist, emissionDist,
                     [totals |-> newFastStateMap(hm), fromDists |-> fromDists])

CondDist(f, t) ==
    IF condDistAbort(f, t) # "none"
    THEN [abort |-> condDistAbort(f, t), res |-> NoCondDist]
    ELSE LET hm == f.HMM
             acc == condDistJoints(f, t, newFastStateMapFrom(hm, Dist(f, t - 1)))
             froms == IterKeys(acc.totals)
         IN  [abort |-> "none",
              res |-> [s \in {hm.States[i] : i \in froms} |->
                        LET i == CHOOSE j \in froms : hm.States[j] = s
                        IN  subMapOf(hm, acc.fromDists[i].m, acc.totals.values[i])]]

CondDistFromFast(f, t) ==
    IF condDistAbort(f, t) # "none"
    THEN [abort |-> condDistAbort(f, t), res |-> NoCondDist]
    ELSE LET hm == f.HMM
             fastRes == fastCondDist(f, t)
             froms == {i \in 1..Len(hm.States) : ~fastRes[i].nil}
         IN  [abort |-> "none",
              res |-> [s \in {hm.States[i] : i \in froms} |->
                        LET i == CHOOSE j \in froms :
                                    /\ hm.States[j] = s
                                    /\ \A k \in froms : hm.States[k] = s => k <= j
                        IN  subMapOf(hm, fastRes[i].m, LogZero)]]

(***************************************************************************)
(* Baum-Welch (baum_welch.go).  A model lives in memory: mem maps the      *)
(* address of an HMM struct to its fields, the three map fields holding    *)
(* the addresses of their maps, and the address of a map to its content.   *)
(***************************************************************************)
InputPtr == <<"h", "struct">>
ResultPtr == <<"res", "struct">>
MapAddr(name, field) == <<name, field>>

\* Memory holding the model hm at address p, each of its maps at its own.
Store(hm, p) ==
    [a \in {p, MapAddr(p[1], "Emitter"), MapAddr(p[1], "Init"),
            MapAddr(p[1], "Transitions")} |->
        IF a = p
        THEN [States |-> hm.States,
              TerminalState |-> hm.TerminalState,
              Emitter |-> MapAddr(p[1], "Emitter"),
              Init |-> MapAddr(p[1], "Init"),
              Transitions |-> MapAddr(p[1], "Transitions")]
        ELSE IF a[2] = "Emitter" THEN hm.Emitter
        ELSE IF a[2] = "Init" THEN hm.Init
        ELSE hm.Transitions]

\* The model a pointer leads to.
Deref(m, p) ==
    [States |-> m[p].States,
     TerminalState |-> m[p].TerminalState,
     Emitter |-> m[m[p].Emitter],
     Init |-> m[m[p].Init],
     Transitions |-> m[m[p].Transitions]]

\* The Go index of the terminal state plus one; Go's zero value when no
\* state is the terminal state.
TerminalIndex(hm) ==
    LET is == {i \in 1..Len(hm.States) : hm.States[i] = hm.TerminalState}
    IN  IF is = {} THEN 1 ELSE CHOOSE i \in is : \A j \in is : j <= i

\* The nil *HMM pointer.
NilPtr == <<Nil, Nil>>

NoBW ==
    [HMM |-> NilPtr, TerminalIndex |-> 0,
     InitTally |-> NoFastMap, InitTotal |-> NegInf,
     TransTally |-> <<>>, FromStateTotals |-> NoFastMap,
     EmitTally |-> <<>>, EmitTotals |-> NoFastMap]

newBaumWelch(p, hm) ==
    [HMM |-> p,
     TerminalIndex |-> TerminalIndex(hm),
     InitTally |-> newFastStateMap(hm),
     InitTotal |-> NegInf,
     TransTally |-> [i \in 1..Len(hm.States) |-> newFastStateMap(hm)],
     FromStateTotals |-> newFastStateMap(hm),
     EmitTally |-> [i \in 1..Len(hm.States) |-> EmptyMap],
     EmitTotals |-> newFastStateMap(hm)]

\* The shared tallies of a baumWelch.
Tallies(b) ==
    <<b.InitTally, b.InitTotal, b.TransTally, b.FromStateTotals,
      b.EmitTally, b.EmitTotals>>

(***************************************************************************)
(* Accumulate.  What it computes before it first takes UpdateLock is       *)
(* accumulatePlan: the list of its critical sections, each with the values *)
(* it adds.  applySection is the body of one critical section.             *)
(***************************************************************************)
RECURSIVE SortedSeq(_)
SortedSeq(S) ==
    IF S = {} THEN <<>>
    ELSE LET m == CHOOSE x \in S : \A y \in S : x <= y
         IN  <<m>> \o SortedSeq(S \ {m})

\* A critical section of Accumulate: what it adds, and for a transition
\* section the iteration i + 1 of the loop over condDists it belongs to.
EmptySection ==
    [kind |-> "empty", from |-> 0, prob |-> LogZero, dist |-> NoFastMap, o |-> Nil, t |-> 0]
InitSection(dist) ==
    [kind |-> "init", from |-> 0, prob |-> LogZero, dist |-> dist, o |-> Nil, t |-> 0]
TransSection(from, prevProb, condDist, t) ==
    [kind |-> "trans", from |-> from, prob |-> prevProb, dist |-> condDist, o |-> Nil,
     t |-> t]
EmitSection(o, dist) ==
    [kind |-> "emit", from |-> 0, prob |-> LogZero, dist |-> dist, o |-> o, t |-> 0]

\* One section per entry of prevDist, in Iter's order.
transSections(prevDist, condDist, t) ==
    LET froms == SortedSeq(IterKeys(prevDist))
    IN  [j \in 1..Len(froms) |->
            TransSection(froms[j], prevDist.values[froms[j]], condDist[froms[j]].m, t)]

RECURSIVE allTransSections(_, _, _)
allTransSections(dists, condDists, i) ==
    IF i > Len(condDists) THEN <<>>
    ELSE transSections(dists[i], condDists[i], i)
         \o allTransSections(dists, condDists, i + 1)

\* The sections of a non-empty sample, given its ForwardBackward, the
\* distribution of every timestep and the conditional ones.
sectionsOf(sample, dists, condDists) ==
    <<InitSection(dists[1])>>
    \o allTransSections(dists, condDists, 1)
    \o [t \in 1..Len(sample) |-> EmitSection(sample[t], dists[t])]

\* Accumulate without the break that ends its condDists loop early.
planOfNoBreak(hm, sample, f) ==
    LET T == Len(sample)
    IN  Bind(<<[t \in 1..T |-> newFastStateMapFrom(hm, Dist(f, t - 1))],
               [t \in 1..T |-> fastCondDist(f, t)]>>,
             LAMBDA d : sectionsOf(sample, d[1], d[2]))

planOf(hm, sample, f) ==
    LET T == Len(sample)
        n == IF hm.TerminalState = Nil THEN T - 1 ELSE T
    IN  Bind(<<[t \in 1..T |-> newFastStateMapFrom(hm, Dist(f, t - 1))],
               [t \in 1..n |-> fastCondDist(f, t)]>>,
             LAMBDA d : sectionsOf(sample, d[1], d[2]))

\* Accumulate taking the terminal-state branch of an empty sample whether
\* or not a terminal state is configured.
accumulatePlanEmptyAlways(hm, sample) ==
    IF Len(sample) = 0
    THEN <<EmptySection>>
    ELSE Bind(NewForwardBackward(hm, sample), LAMBDA f : planOf(hm, sample, f))

accumulatePlan(hm, sample) ==
    IF Len(sample) = 0
    THEN IF hm.TerminalState # Nil THEN <<EmptySection>> ELSE <<>>
    ELSE Bind(NewForwardBackward(hm, sample), LAMBDA f : planOf(hm, sample, f))

\* tally.AddLog(i, dist[i] + shift) for every entry i of dist.
RECURSIVE addLogEach(_, _, _, _)
addLogEach(tally, dist, shift, i) ==
    IF i > Len(dist.present) THEN tally
    ELSE addLogEach(IF dist.present[i]
                    THEN AddLog(tally, i, LogPlus(dist.values[i], shift))
                    ELSE tally,
                    dist, shift, i + 1)

\* emissions[obs] for one state of the emission section.
emitInto(emissions, o, prob) ==
    IF o \in DOMAIN emissions
    THEN MapPut(emissions, o, addLogs(emissions[o], prob))
    ELSE MapPut(emissions, o, prob)

\* A transition section that leaves FromStateTotals as it was.
applySectionNoFromTotal(b, sec) ==
    IF sec.kind = "empty"
    THEN [b EXCEPT !.InitTotal = addLogs(@, LogZero),
                   !.InitTally = AddLog(@, b.TerminalIndex, LogZero)]
    ELSE IF sec.kind = "init"
    THEN [b EXCEPT !.InitTotal = addLogs(@, LogZero),
                   !.InitTally = addLogEach(@, sec.dist, LogZero, 1)]
    ELSE IF sec.kind = "trans"
    THEN [b EXCEPT !.TransTally[sec.from] = addLogEach(@, sec.dist, sec.prob, 1)]
    ELSE [b EXCEPT !.EmitTotals = addLogEach(@, sec.dist, LogZero, 1),
                   !.EmitTally =
                        [i \in DOMAIN @ |->
                            IF sec.dist.present[i]
                            THEN emitInto(@[i], sec.o, sec.dist.values[i])
                            ELSE @[i]]]

applySection(b, sec) ==
    IF sec.kind = "empty"
    THEN [b EXCEPT !.InitTotal = addLogs(@, LogZero),
                   !.InitTally = AddLog(@, b.TerminalIndex, LogZero)]
    ELSE IF sec.kind = "init"
    THEN [b EXCEPT !.InitTotal = addLogs(@, LogZero),
                   !.InitTally = addLogEach(@, sec.dist, LogZero, 1)]
    ELSE IF sec.kind = "trans"
    THEN [b EXCEPT !.FromStateTotals = AddLog(@, sec.from, sec.prob),
                   !.TransTally[sec.from] = addLogEach(@, sec.dist, sec.prob, 1)]
    ELSE [b EXCEPT !.EmitTotals = addLogEach(@, sec.dist, LogZero, 1),
                   !.EmitTally =
                        [i \in DOMAIN @ |->
                            IF sec.dist.present[i]
                            THEN emitInto(@[i], sec.o, sec.dist.values[i])
                            ELSE @[i]]]

RECURSIVE applySections(_, _, _)
applySections(b, secs, k) ==
    IF k > Len(secs) THEN b
    ELSE applySections(applySection(b, secs[k]), secs, k + 1)

\* Accumulate run from start to end with nothing else running.
Accumulate(b, hm, sample) == applySections(b, accumulatePlan(hm, sample), 1)

\* Normalize without its last loop: the emission tallies stay sums.
NormalizeSkipEmissions(b) ==
    [b EXCEPT
        !.TransTally =
            [from \in DOMAIN @ |->
                IF b.FromStateTotals.present[from]
                THEN AddAll(@[from], LogNeg(b.FromStateTotals.values[from]))
                ELSE @[from]],
        !.InitTally = AddAll(@, LogNeg(b.InitTotal))]

Normalize(b) ==
    [b EXCEPT
        !.TransTally =
            [from \in DOMAIN @ |->
                IF b.FromStateTotals.present[from]
                THEN AddAll(@[from], LogNeg(b.FromStateTotals.values[from]))
                ELSE @[from]],
        !.InitTally = AddAll(@, LogNeg(b.InitTotal)),
        !.EmitTally =
            [state \in DOMAIN @ |->
                IF b.EmitTotals.present[state]
                THEN [o \in DOMAIN @[state] |->
                        LogMinus(@[state][o], b.EmitTotals.values[state])]
                ELSE @[state]]]

\* The maps Result builds, written to fresh addresses, and the struct at p
\* made to hold them.
resultMaps(m, b, p) ==
    LET states == m[b.HMM].States
        idx == 1..Len(states)
        te == [s \in {states[i] : i \in idx} |->
                b.EmitTally[CHOOSE i \in idx :
                    states[i] = s /\ \A j \in idx : states[j] = s => j <= i]]
        pairs == {<<from, to>> \in idx \X idx : b.TransTally[from].present[to]}
        transitions ==
            [tr \in {<<states[q[1]], states[q[2]]>> : q \in pairs} |->
                LET q == CHOOSE r \in pairs :
                            /\ <<states[r[1]], states[r[2]]>> = tr
                            /\ \A r2 \in pairs :
                                <<states[r2[1]], states[r2[2]]>> = tr =>
                                    r2[1] < r[1] \/ (r2[1] = r[1] /\ r2[2] <= r[2])
                IN  b.TransTally[q[1]].values[q[2]]]
        init == Map([States |-> states], b.InitTally)
        fresh == [a \in {MapAddr("res", "Init"), MapAddr("res", "Emitter"),
                         MapAddr("res", "Transitions")} |->
                    IF a[2] = "Init" THEN init
                    ELSE IF a[2] = "Emitter" THEN te
                    ELSE transitions]
    IN  [a \in DOMAIN m \cup DOMAIN fresh |->
            IF a = p
            THEN [m[p] EXCEPT !.Init = MapAddr("res", "Init"),
                              !.Emitter = MapAddr("res", "Emitter"),
                              !.Transitions = MapAddr("res", "Transitions")]
            ELSE IF a \in DOMAIN fresh THEN fresh[a]
            ELSE m[a]]

\* Result with res := b.HMM, the pointer, in place of the struct copy.
ResultInPlace(m, b) == [mem |-> resultMaps(m, b, b.HMM), ptr |-> b.HMM]

\* res := *b.HMM copies the struct to a new address; &res is returned.
Result(m, b) ==
    LET copied == [a \in DOMAIN m \cup {ResultPtr} |->
                        IF a = ResultPtr THEN m[b.HMM] ELSE m[a]]
    IN  [mem |-> resultMaps(copied, b, ResultPtr), ptr |-> ResultPtr]

(***************************************************************************)
(* Viterbi (viterbi.go).  A viterbiPath is a record; paths maps the final  *)
(* state of a path to that path.  Go ranges over a map in an unspecified   *)
(* order: the order is an argument, and the actions choose it freely.      *)
(***************************************************************************)
RECURSIVE Perms(_)
Perms(S) ==
    IF S = {} THEN {<<>>}
    ELSE UNION {{<<x>> \o q : q \in Perms(S \ {x})} : x \in S}

viterbiInitialPaths(h) ==
    [s \in DOMAIN h.Init |-> [Seq |-> <<s>>, LogProb |-> h.Init[s]]]

viterbiObservation(h, o, paths) ==
    LET states == SetToSeq(DOMAIN paths)
        emitProbs == LogProbs(h.Emitter, o, states)
    IN  [s \in DOMAIN paths |->
            LET i == CHOOSE j \in 1..Len(states) : states[j] = s
            IN  [paths[s] EXCEPT !.LogProb = LogPlus(@, emitProbs[i])]]

RECURSIVE viterbiTransFold(_, _, _, _, _)
viterbiTransFold(h, paths, order, k, res) ==
    IF k > Len(order) THEN res
    ELSE LET trans == order[k]
             transProb == h.Transitions[trans]
         IN  IF trans[1] \notin DOMAIN paths
             THEN viterbiTransFold(h, paths, order, k + 1, res)
             ELSE LET oldPath == paths[trans[1]]
                      newProb == LogPlus(transProb, oldPath.LogProb)
                  IN  IF IsNegInf(newProb)
                      THEN viterbiTransFold(h, paths, order, k + 1, res)
                      ELSE IF trans[2] \notin DOMAIN res
                              \/ LogLess(res[trans[2]].LogProb, newProb)
                           THEN viterbiTransFold(h, paths, order, k + 1,
                                    MapPut(res, trans[2],
                                           [Seq |-> Append(oldPath.Seq, trans[2]),
                                            LogProb |-> newProb]))
                           ELSE viterbiTransFold(h, paths, order, k + 1, res)

\* viterbiTransition keeping the first path that reaches a state, whatever
\* the later ones score.
RECURSIVE viterbiTransFoldKeepFirst(_, _, _, _, _)
viterbiTransFoldKeepFirst(h, paths, order, k, res) ==
    IF k > Len(order) THEN res
    ELSE LET trans == order[k]
             transProb == h.Transitions[trans]
         IN  IF trans[1] \notin DOMAIN paths
             THEN viterbiTransFoldKeepFirst(h, paths, order, k + 1, res)
             ELSE LET oldPath == paths[trans[1]]
                      newProb == LogPlus(transProb, oldPath.LogProb)
                  IN  IF IsNegInf(newProb) \/ trans[2] \in DOMAIN res
                      THEN viterbiTransFoldKeepFirst(h, paths, order, k + 1, res)
                      ELSE viterbiTransFoldKeepFirst(h, paths, order, k + 1,
                               MapPut(res, trans[2],
                                      [Seq |-> Append(oldPath.Seq, trans[2]),
                                       LogProb |-> newProb]))

viterbiTransitionKeepFirst(h, paths, order) ==
    viterbiTransFoldKeepFirst(h, paths, order, 1,
                              [s \in {} |-> [Seq |-> <<>>, LogProb |-> NegInf]])

\* viterbiTransition replacing the path kept for a state whenever a later
\* transition scores at least as much.
RECURSIVE viterbiTransFoldKeepLast(_, _, _, _, _)
viterbiTransFoldKeepLast(h, paths, order, k, res) ==
    IF k > Len(order) THEN res
    ELSE LET trans == order[k]
             transProb == h.Transitions[trans]
         IN  IF trans[1] \notin DOMAIN paths
             THEN viterbiTransFoldKeepLast(h, paths, order, k + 1, res)
             ELSE LET oldPath == paths[trans[1]]
                      newProb == LogPlus(transProb, oldPath.LogProb)
                  IN  IF IsNegInf(newProb)
                      THEN viterbiTransFoldKeepLast(h, paths, order, k + 1, res)
                      ELSE IF trans[2] \notin DOMAIN res
                              \/ ~LogLess(newProb, res[trans[2]].LogProb)
                           THEN viterbiTransFoldKeepLast(h, paths, order, k + 1,
                                    MapPut(res, trans[2],
                                           [Seq |-> Append(oldPath.Seq, trans[2]),
                                            LogProb |-> newProb]))
                           ELSE viterbiTransFoldKeepLast(h, paths, order, k + 1, res)

viterbiTransitionKeepLast(h, paths, order) ==
    viterbiTransFoldKeepLast(h, paths, order, 1,
                             [s \in {} |-> [Seq |-> <<>>, LogProb |-> NegInf]])

viterbiTransition(h, paths, order) ==
    viterbiTransFold(h, paths, order, 1, [s \in {} |-> [Seq |-> <<>>, LogProb |-> NegInf]])

\* A []State result: the nil slice, or a slice with its elements.
NilSeq == [nil |-> TRUE, seq |-> <<>>]
Slice(q) == [nil |-> FALSE, seq |-> q]

\* The loop that picks the globally best path when there is no terminal
\* state: mostLikely is nil until a path has been taken.
RECURSIVE viterbiBestFold(_, _, _, _, _)
viterbiBestFold(paths, order, k, mostLikely, bestProb) ==
    IF k > Len(order) THEN mostLikely
    ELSE LET path == paths[order[k]]
         IN  IF ~LogLess(path.LogProb, bestProb)
             THEN viterbiBestFold(paths, order, k + 1, Slice(path.Seq), path.LogProb)
             ELSE viterbiBestFold(paths, order, k + 1, mostLikely, bestProb)

\* What MostLikely returns from the paths left after the last observation.
viterbiResult(h, paths, order) ==
    IF h.TerminalState # Nil
    THEN IF h.TerminalState \in DOMAIN paths
         THEN LET q == paths[h.TerminalState].Seq
              IN  Slice(SubSeq(q, 1, Len(q) - 1))
         ELSE NilSeq
    ELSE viterbiBestFold(paths, order, 1, NilSeq, NegInf)

(***************************************************************************)
(* The models and observation sequences the specifications draw from.      *)
(* A model is a choice of which Init, Transitions and Emitter entries are  *)
(* listed; a listed entry holds the weight of its position, and an entry   *)
(* left out is either absent from its map or listed with -Inf.             *)
(***************************************************************************)
StateIdx == 1..NumStates
ObsIdx == 1..NumObs

InitW(i) == Norm(1, NumStates)

TransW(i, j) ==
    IF i % 2 = 1 THEN Norm(2 * j, NumStates * (NumStates + 1))
    ELSE Norm(1, NumStates)

EmitW(i, o) ==
    IF i % 2 = 1 THEN Norm(1, NumObs)
    ELSE Norm(2 * o, NumObs * (NumObs + 1))

HoleKinds == {"absent", "neginf"}

ModelOf(initMask, transMask, emitMask, term, holes) ==
    [States |-> AllStates,
     TerminalState |-> term,
     Emitter |->
        [s \in StateSet |->
            LET i == CHOOSE j \in StateIdx : AllStates[j] = s
                listed == {o \in ObsIdx : <<i, o>> \in emitMask \/ holes = "neginf"}
            IN  [x \in {ObsNames[o] : o \in listed} |->
                    LET o == CHOOSE k \in listed : ObsNames[k] = x
                    IN  IF <<i, o>> \in emitMask THEN EmitW(i, o) ELSE NegInf]],
     Init |->
        LET listed == {i \in StateIdx : i \in initMask \/ holes = "neginf"}
        IN  [s \in {AllStates[i] : i \in listed} |->
                LET i == CHOOSE j \in listed : AllStates[j] = s
                IN  IF i \in initMask THEN InitW(i) ELSE NegInf],
     Transitions |->
        LET listed == {p \in StateIdx \X StateIdx : p \in transMask \/ holes = "neginf"}
        IN  [k \in {<<AllStates[p[1]], AllStates[p[2]]>> : p \in listed} |->
                LET p == CHOOSE q \in listed :
                            <<AllStates[q[1]], AllStates[q[2]]>> = k
                IN  IF p \in transMask THEN TransW(p[1], p[2]) ELSE NegInf]]

Terminals == {Nil, AllStates[NumStates]}

Models ==
    {ModelOf(im, tm, em, term, holes) :
        im \in SUBSET StateIdx,
        tm \in SUBSET (StateIdx \X StateIdx),
        em \in SUBSET (StateIdx \X ObsIdx),
        term \in Terminals,
        holes \in HoleKinds}

ObsSeqs == UNION {[1..n -> ObsSet] : n \in 0..MaxLen}

\* The model of one state whose initial probability, self-transition and
\* emission of the first observation each have probability 1.
OneStateModel(term) ==
    [States |-> <<AllStates[1]>>,
     TerminalState |-> term,
     Emitter |-> [s \in {AllStates[1]} |-> [o \in {ObsNames[1]} |-> LogZero]],
     Init |-> [s \in {AllStates[1]} |-> LogZero],
     Transitions |-> [k \in {<<AllStates[1], AllStates[1]>>} |-> LogZero]]

\* A model of three states in a chain: the first reaches the terminal state
\* only through the second.
ChainModel ==
    LET a == StateNames[1]
        b == StateNames[2]
        term == StateNames[3]
        half == <<1, 2>>
    IN  [States |-> <<a, b, term>>,
         TerminalState |-> term,
         Emitter |-> [s \in {a, b} |-> [o \in ObsSet |-> half]],
         Init |-> [s \in {a} |-> LogZero],
         Transitions |-> [k \in {<<a, a>>, <<a, b>>, <<b, b>>, <<b, term>>} |-> half]]

\* The model of no state.
ZeroStateModel ==
    [States |-> <<>>,
     TerminalState |-> Nil,
     Emitter |-> [s \in {} |-> EmptyMap],
     Init |-> EmptyMap,
     Transitions |-> [k \in {} |-> NegInf]]

(***************************************************************************)
(* State.                                                                  *)
(***************************************************************************)
VARIABLES
    h,          \* the model the operation under check is called with
    obs,        \* the observation sequence it is called with
    pc,         \* inference queries: "start", "ready" or the last query
    fb,         \* the ForwardBackward that NewForwardBackward returned
    qT,         \* the timestep of the last query
    qDist,      \* the map the last Dist query returned
    qLL,        \* what the last LogLikelihood query returned
    qCond,      \* what the last CondDist query returned, in its two forms
    vPc,        \* MostLikely: "start", "obs", "trans" or "done"
    vI,         \* MostLikely: the number of observations consumed
    vPaths,     \* MostLikely: paths
    vResult,    \* MostLikely: the slice returned
    fwd,        \* the goroutine and channel of forwardProbs
    bwd,        \* the goroutine and channel of backwardProbs
    callee,     \* stream caller: "ForwardProbs" or "BackwardProbs"
    cPc,        \* stream caller: "call", "recv", "stopped" or "done"
    cGot,       \* stream caller: the items received so far
    res,        \* NewForwardBackward: the ForwardBackward being filled
    nfbPc,      \* NewForwardBackward: "call", "wait" or "returned"
    gPc,        \* NewForwardBackward: its two goroutines' positions
    wg,         \* NewForwardBackward: the WaitGroup counter
    mem,        \* BaumWelch: the memory holding the models
    bw,         \* BaumWelch: the baumWelch struct (bw)
    UpdateLock, \* BaumWelch: bw.UpdateLock, 0 or the worker holding it
    bwPc,       \* BaumWelch: "call", "spawn", "normalize", "result", "returned"
    parallelism,\* BaumWelch: the parallelism argument
    nSpawned,   \* BaumWelch: the loop variable i
    bwWg,       \* BaumWelch: the WaitGroup counter
    data,       \* BaumWelch: the data channel
    sentLog,    \* the samples sent on data so far, in order
    wpc,        \* each worker's position
    wloc,       \* each worker's sample and remaining critical sections
    accLog,     \* the Accumulate calls that have returned
    ret,        \* BaumWelch: the pointer returned
    tFirst,     \* training: the model the first BaumWelch step started from
    tData,      \* training: the data set, the samples in the order sent
    tStep,      \* training: the number of BaumWelch steps run so far
    tLL,        \* training: the samples' log-likelihoods before each step and now
    mF,         \* fastStateMap calls: the fastStateMap
    mArg,       \* fastStateMap calls: the arguments of the last AddLog call
    mCalls      \* fastStateMap calls: the number of AddLog calls made

inputVars == <<h, obs>>
queryVars == <<pc, fb, qT, qDist, qLL, qCond>>
viterbiVars == <<vPc, vI, vPaths, vResult>>
prodVars == <<fwd, bwd>>
callerVars == <<callee, cPc, cGot>>
nfbVars == <<res, nfbPc, gPc, wg>>
streamVars == <<prodVars, callerVars, nfbVars>>
bwVars == <<mem, bw, UpdateLock, bwPc, parallelism, nSpawned, bwWg, data, sentLog,
           wpc, wloc, accLog, ret>>
trainVars == <<tFirst, tData, tStep, tLL>>
mapVars == <<mF, mArg, mCalls>>
vars == <<inputVars, queryVars, viterbiVars, streamVars, bwVars, trainVars, mapVars>>

\* The two forms of the method CondDist.
CondForms == {"CondDist", "CondDistFromFast"}

NoFB == [HMM |-> Nil, Obs |-> <<>>, cache |-> Nil, ForwardOut |-> <<>>, BackwardOut |-> <<>>]
NoLL == [panic |-> FALSE, reads |-> {}, val |-> NaN]
NoCond == [abort |-> "none", res |-> NoCondDist]

QueryIdle ==
    /\ pc = "idle"
    /\ fb = NoFB
    /\ qT = 0
    /\ qDist = EmptyMap
    /\ qLL = NoLL
    /\ qCond = [form \in CondForms |-> NoCond]

NoPaths == [s \in {} |-> [Seq |-> <<>>, LogProb |-> NegInf]]

ViterbiIdle ==
    /\ vPc = "idle"
    /\ vI = 0
    /\ vPaths = NoPaths
    /\ vResult = NilSeq

MaxWorkers == IF MaxParallelism > GOMAXPROCS THEN MaxParallelism ELSE GOMAXPROCS
Workers == 1..MaxWorkers

NoLocals == [id |-> 0, sample |-> <<>>, todo |-> <<>>]
NoMem == [a \in {} |-> Nil]

BWIdle ==
    /\ mem = NoMem
    /\ bw = NoBW
    /\ UpdateLock = 0
    /\ bwPc = "idle"
    /\ parallelism = 0
    /\ nSpawned = 0
    /\ bwWg = 0
    /\ data = NoChan
    /\ sentLog = <<>>
    /\ wpc = [w \in Workers |-> "none"]
    /\ wloc = [w \in Workers |-> NoLocals]
    /\ accLog = <<>>
    /\ ret = NilPtr

TrainIdle ==
    /\ tFirst = NoFB
    /\ tData = <<>>
    /\ tStep = 0
    /\ tLL = <<>>

NoMap == [values |-> <<>>, present |-> <<>>]

MapIdle ==
    /\ mF = NoMap
    /\ mArg = <<0, NegInf>>
    /\ mCalls = 0

Tasks == {"fwd", "bwd"}

StreamIdle ==
    /\ fwd = NoProducer
    /\ bwd = NoProducer
    /\ callee = "none"
    /\ cPc = "idle"
    /\ cGot = <<>>
    /\ res = NoFB
    /\ nfbPc = "idle"
    /\ gPc = [g \in Tasks |-> "none"]
    /\ wg = 0

(***************************************************************************)
(* Inference queries on one sequence, run by a single caller:              *)
(* NewForwardBackward, then Dist(t) or LogLikelihood().                    *)
(***************************************************************************)
QueryInit ==
    /\ h \in Models
    /\ obs \in ObsSeqs
    /\ pc = "start"
    /\ fb = NoFB
    /\ qT = 0
    /\ qDist = EmptyMap
    /\ qLL = NoLL
    /\ qCond = [form \in CondForms |-> NoCond]
    /\ ViterbiIdle
    /\ StreamIdle
    /\ BWIdle
    /\ TrainIdle
    /\ MapIdle

QueryNewForwardBackward ==
    /\ pc = "start"
    /\ fb' = NewForwardBackward(h, obs)
    /\ pc' = "ready"
    /\ UNCHANGED <<inputVars, trainVars, mapVars, viterbiVars, streamVars, bwVars, qT, qDist, qLL, qCond>>

QueryDist(t) ==
    /\ pc = "ready"
    /\ qT' = t
    /\ qDist' = Dist(fb, t)
    /\ pc' = "Dist"
    /\ UNCHANGED <<inputVars, trainVars, mapVars, viterbiVars, streamVars, bwVars, fb, qLL, qCond>>

QueryLogLikelihood ==
    /\ pc = "ready"
    /\ qLL' = ForwardBackward_LogLikelihood(fb)
    /\ pc' = "fb.LogLikelihood"
    /\ UNCHANGED <<inputVars, trainVars, mapVars, viterbiVars, streamVars, bwVars, fb, qT, qDist, qCond>>

QueryLogLikelihoodFn ==
    /\ pc = "start"
    /\ qLL' = LogLikelihood(h, obs)
    /\ pc' = "LogLikelihood"
    /\ UNCHANGED <<inputVars, trainVars, mapVars, viterbiVars, streamVars, bwVars, fb, qT, qDist, qCond>>

QueryNext ==
    \/ QueryNewForwardBackward
    \/ \E t \in 0..(Len(obs) - 1) : QueryDist(t)
    \/ QueryLogLikelihood
    \/ QueryLogLikelihoodFn

SpecQuery == QueryInit /\ [][QueryNext]_vars

(***************************************************************************)
(* CondDist(t) on a ForwardBackward, for t inside and outside its range.   *)
(***************************************************************************)
MaxBeyond == 2

QueryCondDist(t) ==
    /\ pc = "ready"
    /\ qT' = t
    /\ qCond' = [form \in CondForms |->
                    IF form = "CondDist" THEN CondDist(fb, t)
                    ELSE CondDistFromFast(fb, t)]
    /\ pc' = "CondDist"
    /\ UNCHANGED <<inputVars, trainVars, mapVars, viterbiVars, streamVars, bwVars, fb, qDist, qLL>>

CondNext ==
    \/ QueryNewForwardBackward
    \/ \E t \in (0 - MaxBeyond)..(Len(obs) + MaxBeyond) : QueryCondDist(t)

SpecCond == QueryInit /\ [][CondNext]_vars

(***************************************************************************)
(* MostLikely, one step per call of viterbiObservation, viterbiTransition  *)
(* and the final selection.                                                *)
(***************************************************************************)
ViterbiInit ==
    /\ h \in Models \cup {ZeroStateModel}
    /\ obs \in ObsSeqs
    /\ vPc = "start"
    /\ vI = 0
    /\ vPaths = NoPaths
    /\ vResult = NilSeq
    /\ QueryIdle
    /\ TrainIdle
    /\ MapIdle
    /\ StreamIdle
    /\ BWIdle

ViterbiBegin ==
    /\ vPc = "start"
    /\ vPaths' = viterbiInitialPaths(h)
    /\ vPc' = "obs"
    /\ UNCHANGED <<inputVars, trainVars, mapVars, queryVars, streamVars, bwVars, vI, vResult>>

ViterbiObservation ==
    /\ vPc = "obs"
    /\ vI < Len(obs)
    /\ vPaths' = viterbiObservation(h, obs[vI + 1], vPaths)
    /\ IF h.TerminalState # Nil \/ vI + 1 < Len(obs)
       THEN vPc' = "trans" /\ vI' = vI
       ELSE vPc' = "obs" /\ vI' = vI + 1
    /\ UNCHANGED <<inputVars, trainVars, mapVars, queryVars, streamVars, bwVars, vResult>>

ViterbiTransition ==
    /\ vPc = "trans"
    /\ \E order \in Perms(DOMAIN h.Transitions) :
            vPaths' = viterbiTransition(h, vPaths, order)
    /\ vI' = vI + 1
    /\ vPc' = "obs"
    /\ UNCHANGED <<inputVars, trainVars, mapVars, queryVars, streamVars, bwVars, vResult>>

ViterbiReturn ==
    /\ vPc = "obs"
    /\ vI = Len(obs)
    /\ \E order \in Perms(DOMAIN vPaths) :
            vResult' = viterbiResult(h, vPaths, order)
    /\ vPc' = "done"
    /\ UNCHANGED <<inputVars, trainVars, mapVars, queryVars, streamVars, bwVars, vI, vPaths>>

ViterbiNext ==
    \/ ViterbiBegin
    \/ ViterbiObservation
    \/ ViterbiTransition
    \/ ViterbiReturn

SpecViterbi == ViterbiInit /\ [][ViterbiNext]_vars

(***************************************************************************)
(* The goroutines started by forwardProbs and backwardProbs: each loop     *)
(* iteration is one send, which waits for room in res; the deferred close  *)
(* runs when the loop is over.                                             *)
(***************************************************************************)
FwdSend ==
    /\ fwd.pc = "run"
    /\ fwd.i < Len(obs)
    /\ CanSend(fwd.res)
    /\ fwd' = fwdSendStep(newHMMCache(h), h, obs, fwd)
    /\ UNCHANGED <<inputVars, trainVars, mapVars, queryVars, viterbiVars, bwVars, bwd, callerVars, nfbVars>>

FwdClose ==
    /\ fwd.pc = "run"
    /\ fwd.i = Len(obs)
    /\ fwd' = [fwd EXCEPT !.res = closeChan(@), !.pc = "done"]
    /\ UNCHANGED <<inputVars, trainVars, mapVars, queryVars, viterbiVars, bwVars, bwd, callerVars, nfbVars>>

BwdSend ==
    /\ bwd.pc = "run"
    /\ bwd.i >= 0
    /\ CanSend(bwd.res)
    /\ bwd' = bwdSendStep(newHMMCache(h), h, obs, bwd)
    /\ UNCHANGED <<inputVars, trainVars, mapVars, queryVars, viterbiVars, bwVars, fwd, callerVars, nfbVars>>

BwdClose ==
    /\ bwd.pc = "run"
    /\ bwd.i < 0
    /\ bwd' = [bwd EXCEPT !.res = closeChan(@), !.pc = "done"]
    /\ UNCHANGED <<inputVars, trainVars, mapVars, queryVars, viterbiVars, bwVars, fwd, callerVars, nfbVars>>

(***************************************************************************)
(* A caller of ForwardProbs or BackwardProbs: it receives from the channel *)
(* it was handed until the channel reports its close, or gives up earlier. *)
(***************************************************************************)
StreamModels ==
    {ModelOf(im, tm, em, term, holes) :
        im \in {StateIdx, {1}},
        tm \in {StateIdx \X StateIdx, (StateIdx \X StateIdx) \ {<<1, 1>>}},
        em \in {StateIdx \X ObsIdx, (StateIdx \X ObsIdx) \ {<<NumStates, 1>>}},
        term \in Terminals,
        holes \in HoleKinds}

StreamInit ==
    /\ h \in StreamModels \cup {ChainModel}
    /\ obs \in ObsSeqs
    /\ callee \in {"ForwardProbs", "BackwardProbs"}
    /\ cPc = "call"
    /\ cGot = <<>>
    /\ fwd = NoProducer
    /\ bwd = NoProducer
    /\ res = NoFB
    /\ nfbPc = "idle"
    /\ gPc = [g \in Tasks |-> "none"]
    /\ wg = 0
    /\ QueryIdle
    /\ TrainIdle
    /\ MapIdle
    /\ ViterbiIdle
    /\ BWIdle

StreamCall ==
    /\ cPc = "call"
    /\ IF callee = "ForwardProbs"
       THEN fwd' = ForwardProbs(h, obs) /\ bwd' = bwd
       ELSE bwd' = BackwardProbs(h, obs) /\ fwd' = fwd
    /\ cPc' = "recv"
    /\ UNCHANGED <<inputVars, trainVars, mapVars, queryVars, viterbiVars, bwVars, callee, cGot, nfbVars>>

StreamRecv ==
    /\ cPc = "recv"
    /\ IF callee = "ForwardProbs"
       THEN /\ CanRecv(fwd.res)
            /\ cGot' = Append(cGot, Head(fwd.res.buf))
            /\ fwd' = [fwd EXCEPT !.res.buf = Tail(@)]
            /\ bwd' = bwd
       ELSE /\ CanRecv(bwd.res)
            /\ cGot' = Append(cGot, Head(bwd.res.buf))
            /\ bwd' = [bwd EXCEPT !.res.buf = Tail(@)]
            /\ fwd' = fwd
    /\ UNCHANGED <<inputVars, trainVars, mapVars, queryVars, viterbiVars, bwVars, callee, cPc, nfbVars>>

StreamRecvClosed ==
    /\ cPc = "recv"
    /\ RecvClosed(IF callee = "ForwardProbs" THEN fwd.res ELSE bwd.res)
    /\ cPc' = "done"
    /\ UNCHANGED <<inputVars, trainVars, mapVars, queryVars, viterbiVars, bwVars, prodVars, callee, cGot, nfbVars>>

StreamStop ==
    /\ cPc = "recv"
    /\ cPc' = "stopped"
    /\ UNCHANGED <<inputVars, trainVars, mapVars, queryVars, viterbiVars, bwVars, prodVars, callee, cGot, nfbVars>>

StreamNext ==
    \/ StreamCall
    \/ StreamRecv
    \/ StreamRecvClosed
    \/ StreamStop
    \/ FwdSend
    \/ FwdClose
    \/ BwdSend
    \/ BwdClose

SpecStream == StreamInit /\ [][StreamNext]_vars

\* The goroutine feeding the stream, and the caller's own steps.
StreamProducer == FwdSend \/ FwdClose \/ BwdSend \/ BwdClose
StreamReceiver == StreamCall \/ StreamRecv \/ StreamRecvClosed

\* A goroutine that can take a step is scheduled in the end, and a caller
\* that has not given up takes the receive that is ready.
FairSpecStream ==
    /\ SpecStream
    /\ WF_vars(StreamProducer)
    /\ WF_vars(StreamReceiver)

(***************************************************************************)
(* NewForwardBackward: two goroutines, each ranging over its own channel   *)
(* and appending to its own slice of res, joined by a WaitGroup.           *)
(***************************************************************************)
FBInit ==
    /\ h \in StreamModels
    /\ obs \in ObsSeqs
    /\ nfbPc = "call"
    /\ res = NoFB
    /\ gPc = [g \in Tasks |-> "none"]
    /\ wg = 0
    /\ fwd = NoProducer
    /\ bwd = NoProducer
    /\ callee = "none"
    /\ cPc = "idle"
    /\ cGot = <<>>
    /\ QueryIdle
    /\ TrainIdle
    /\ MapIdle
    /\ ViterbiIdle
    /\ BWIdle

NFBCall ==
    /\ nfbPc = "call"
    /\ res' = [HMM |-> h, Obs |-> obs, cache |-> newHMMCache(h),
               ForwardOut |-> <<>>, BackwardOut |-> <<>>]
    /\ wg' = 2
    /\ gPc' = [g \in Tasks |-> "start"]
    /\ nfbPc' = "wait"
    /\ UNCHANGED <<inputVars, trainVars, mapVars, queryVars, viterbiVars, bwVars, prodVars, callerVars>>

FwdTaskStart ==
    /\ gPc["fwd"] = "start"
    /\ fwd' = forwardProbsGo(res.cache, res.HMM)
    /\ gPc' = [gPc EXCEPT !["fwd"] = "range"]
    /\ UNCHANGED <<inputVars, trainVars, mapVars, queryVars, viterbiVars, bwVars, bwd, callerVars, res, nfbPc, wg>>

FwdTaskRecv ==
    /\ gPc["fwd"] = "range"
    /\ CanRecv(fwd.res)
    /\ res' = [res EXCEPT !.ForwardOut = Append(@, Head(fwd.res.buf))]
    /\ fwd' = [fwd EXCEPT !.res.buf = Tail(@)]
    /\ UNCHANGED <<inputVars, trainVars, mapVars, queryVars, viterbiVars, bwVars, bwd, callerVars, nfbPc, gPc, wg>>

FwdTaskDone ==
    /\ gPc["fwd"] = "range"
    /\ RecvClosed(fwd.res)
    /\ gPc' = [gPc EXCEPT !["fwd"] = "done"]
    /\ wg' = wg - 1
    /\ UNCHANGED <<inputVars, trainVars, mapVars, queryVars, viterbiVars, bwVars, prodVars, callerVars, res, nfbPc>>

BwdTaskStart ==
    /\ gPc["bwd"] = "start"
    /\ bwd' = backwardProbsGo(res.cache, res.HMM, res.Obs)
    /\ gPc' = [gPc EXCEPT !["bwd"] = "range"]
    /\ UNCHANGED <<inputVars, trainVars, mapVars, queryVars, viterbiVars, bwVars, fwd, callerVars, res, nfbPc, wg>>

BwdTaskRecv ==
    /\ gPc["bwd"] = "range"
    /\ CanRecv(bwd.res)
    /\ res' = [res EXCEPT !.BackwardOut = Append(@, Head(bwd.res.buf))]
    /\ bwd' = [bwd EXCEPT !.res.buf = Tail(@)]
    /\ UNCHANGED <<inputVars, trainVars, mapVars, queryVars, viterbiVars, bwVars, fwd, callerVars, nfbPc, gPc, wg>>

BwdTaskDone ==
    /\ gPc["bwd"] = "range"
    /\ RecvClosed(bwd.res)
    /\ gPc' = [gPc EXCEPT !["bwd"] = "done"]
    /\ wg' = wg - 1
    /\ UNCHANGED <<inputVars, trainVars, mapVars, queryVars, viterbiVars, bwVars, prodVars, callerVars, res, nfbPc>>

\* wg.Wait() that lets the caller go once either goroutine is done.
NFBWaitForOne ==
    /\ nfbPc = "wait"
    /\ wg <= 1
    /\ nfbPc' = "returned"
    /\ UNCHANGED <<inputVars, trainVars, mapVars, queryVars, viterbiVars, bwVars, prodVars, callerVars, res, gPc, wg>>

NFBWait ==
    /\ nfbPc = "wait"
    /\ wg = 0
    /\ nfbPc' = "returned"
    /\ UNCHANGED <<inputVars, trainVars, mapVars, queryVars, viterbiVars, bwVars, prodVars, callerVars, res, gPc, wg>>

FBNext ==
    \/ NFBCall
    \/ FwdTaskStart
    \/ FwdTaskRecv
    \/ FwdTaskDone
    \/ BwdTaskStart
    \/ BwdTaskRecv
    \/ BwdTaskDone
    \/ NFBWait
    \/ FwdSend
    \/ FwdClose
    \/ BwdSend
    \/ BwdClose

SpecFB == FBInit /\ [][FBNext]_vars

(***************************************************************************)
(* BaumWelch(h, data, parallelism): the caller's goroutine, the workers it *)
(* starts, and the sender on the data channel.  A worker is at "recv"      *)
(* (the range over data), "accumulate" (Accumulate up to its first Lock),  *)
(* "lock" (waiting in UpdateLock.Lock), "update" (inside a critical        *)
(* section) or "done".  UpdateLock is 0 when free and else the worker      *)
(* holding it.  sentLog and accLog record the samples sent and the         *)
(* Accumulate calls that returned.                                         *)
(***************************************************************************)
BWModels ==
    {ModelOf(StateIdx, tm, StateIdx \X ObsIdx, term, "absent") :
        tm \in {StateIdx \X StateIdx, (StateIdx \X StateIdx) \ {<<1, 1>>}},
        term \in Terminals}

BWSamples == {<<>>, <<ObsNames[1]>>, <<ObsNames[1], ObsNames[NumObs]>>}

DataCaps == {0, 1}

BWInit ==
    /\ h \in BWModels
    /\ obs = <<>>
    /\ parallelism \in 0..MaxParallelism
    /\ \E cap \in DataCaps : data = makeChan(cap)
    /\ mem = Store(h, InputPtr)
    /\ bw = NoBW
    /\ UpdateLock = 0
    /\ bwPc = "call"
    /\ nSpawned = 0
    /\ bwWg = 0
    /\ sentLog = <<>>
    /\ wpc = [w \in Workers |-> "none"]
    /\ wloc = [w \in Workers |-> NoLocals]
    /\ accLog = <<>>
    /\ ret = NilPtr
    /\ QueryIdle
    /\ TrainIdle
    /\ MapIdle
    /\ ViterbiIdle
    /\ StreamIdle

\* Lines 20-24: the default parallelism and newBaumWelch.
BWCall ==
    /\ bwPc = "call"
    /\ parallelism' = IF parallelism = 0 THEN GOMAXPROCS ELSE parallelism
    /\ bw' = newBaumWelch(InputPtr, Deref(mem, InputPtr))
    /\ bwPc' = "spawn"
    /\ UNCHANGED <<inputVars, trainVars, mapVars, queryVars, viterbiVars, streamVars, mem, UpdateLock,
                   nSpawned, bwWg, data, sentLog, wpc, wloc, accLog, ret>>

\* One iteration of the loop: wg.Add(1) and the go statement.
BWSpawn ==
    /\ bwPc = "spawn"
    /\ nSpawned < parallelism
    /\ bwWg' = bwWg + 1
    /\ wpc' = [wpc EXCEPT ![nSpawned + 1] = "recv"]
    /\ nSpawned' = nSpawned + 1
    /\ UNCHANGED <<inputVars, trainVars, mapVars, queryVars, viterbiVars, streamVars, mem, bw, UpdateLock,
                   bwPc, parallelism, data, sentLog, wloc, accLog, ret>>

\* The loop is over and wg.Wait() returns at once, whatever the counter.
BWWaitNoJoin ==
    /\ bwPc = "spawn"
    /\ nSpawned >= parallelism
    /\ bwPc' = "normalize"
    /\ UNCHANGED <<inputVars, trainVars, mapVars, queryVars, viterbiVars, streamVars, mem, bw, UpdateLock,
                   parallelism, nSpawned, bwWg, data, sentLog, wpc, wloc, accLog, ret>>

\* The loop is over and wg.Wait() returns: the counter is zero.
BWWait ==
    /\ bwPc = "spawn"
    /\ nSpawned >= parallelism
    /\ bwWg = 0
    /\ bwPc' = "normalize"
    /\ UNCHANGED <<inputVars, trainVars, mapVars, queryVars, viterbiVars, streamVars, mem, bw, UpdateLock,
                   parallelism, nSpawned, bwWg, data, sentLog, wpc, wloc, accLog, ret>>

BWNormalize ==
    /\ bwPc = "normalize"
    /\ bw' = Normalize(bw)
    /\ bwPc' = "result"
    /\ UNCHANGED <<inputVars, trainVars, mapVars, queryVars, viterbiVars, streamVars, mem, UpdateLock,
                   parallelism, nSpawned, bwWg, data, sentLog, wpc, wloc, accLog, ret>>

BWResult ==
    /\ bwPc = "result"
    /\ mem' = Result(mem, bw).mem
    /\ ret' = Result(mem, bw).ptr
    /\ bwPc' = "returned"
    /\ UNCHANGED <<inputVars, trainVars, mapVars, queryVars, viterbiVars, streamVars, bw, UpdateLock,
                   parallelism, nSpawned, bwWg, data, sentLog, wpc, wloc, accLog>>

\* for sample := range data: a sample is received.
WorkerRecv(w) ==
    /\ wpc[w] = "recv"
    /\ CanRecv(data)
    /\ wloc' = [wloc EXCEPT ![w] = [id |-> Head(data.buf).id,
                                    sample |-> Head(data.buf).sample,
                                    todo |-> <<>>]]
    /\ data' = [data EXCEPT !.buf = Tail(@)]
    /\ wpc' = [wpc EXCEPT ![w] = "accumulate"]
    /\ UNCHANGED <<inputVars, trainVars, mapVars, queryVars, viterbiVars, streamVars, mem, bw, UpdateLock,
                   bwPc, parallelism, nSpawned, bwWg, sentLog, accLog, ret>>

\* The range ends on the closed channel: wg.Done().
WorkerRecvClosed(w) ==
    /\ wpc[w] = "recv"
    /\ RecvClosed(data)
    /\ wpc' = [wpc EXCEPT ![w] = "done"]
    /\ bwWg' = bwWg - 1
    /\ UNCHANGED <<inputVars, trainVars, mapVars, queryVars, viterbiVars, streamVars, mem, bw, UpdateLock,
                   bwPc, parallelism, nSpawned, data, sentLog, wloc, accLog, ret>>

\* Accumulate, lines 79-105: everything before the first Lock; it returns
\* here when it has no critical section to run.
WorkerCompute(w) ==
    /\ wpc[w] = "accumulate"
    /\ \E hm \in {Deref(mem, bw.HMM)} :
       \E todo \in {accumulatePlan(hm, wloc[w].sample)} :
           /\ wloc' = [wloc EXCEPT ![w].todo = todo]
           /\ IF Len(todo) = 0
              THEN /\ wpc' = [wpc EXCEPT ![w] = "recv"]
                   /\ accLog' = Append(accLog, [id |-> wloc[w].id, by |-> w])
              ELSE /\ wpc' = [wpc EXCEPT ![w] = "lock"]
                   /\ accLog' = accLog
    /\ UNCHANGED <<inputVars, trainVars, mapVars, queryVars, viterbiVars, streamVars, mem, bw, UpdateLock,
                   bwPc, parallelism, nSpawned, bwWg, data, sentLog, ret>>

\* b.UpdateLock.Lock() that does not wait for the lock to be free.
WorkerLockNoWait(w) ==
    /\ wpc[w] = "lock"
    /\ UpdateLock' = w
    /\ wpc' = [wpc EXCEPT ![w] = "update"]
    /\ UNCHANGED <<inputVars, trainVars, mapVars, queryVars, viterbiVars, streamVars, mem, bw,
                   bwPc, parallelism, nSpawned, bwWg, data, sentLog, wloc, accLog, ret>>

\* b.UpdateLock.Lock()
WorkerLock(w) ==
    /\ wpc[w] = "lock"
    /\ UpdateLock = 0
    /\ UpdateLock' = w
    /\ wpc' = [wpc EXCEPT ![w] = "update"]
    /\ UNCHANGED <<inputVars, trainVars, mapVars, queryVars, viterbiVars, streamVars, mem, bw,
                   bwPc, parallelism, nSpawned, bwWg, data, sentLog, wloc, accLog, ret>>

\* The critical section changing the tallies only when the first worker
\* runs it.
WorkerUpdateFirstOnly(w) ==
    /\ wpc[w] = "update"
    /\ bw' = IF w = 1 THEN applySection(bw, Head(wloc[w].todo)) ELSE bw
    /\ UpdateLock' = 0
    /\ wloc' = [wloc EXCEPT ![w].todo = Tail(@)]
    /\ IF Len(wloc[w].todo) = 1
       THEN /\ wpc' = [wpc EXCEPT ![w] = "recv"]
            /\ accLog' = Append(accLog, [id |-> wloc[w].id, by |-> w])
       ELSE /\ wpc' = [wpc EXCEPT ![w] = "lock"]
            /\ accLog' = accLog
    /\ UNCHANGED <<inputVars, trainVars, mapVars, queryVars, viterbiVars, streamVars, mem,
                   bwPc, parallelism, nSpawned, bwWg, data, sentLog, ret>>

\* The critical section and its Unlock; Accumulate returns after the last.
WorkerUpdate(w) ==
    /\ wpc[w] = "update"
    /\ bw' = applySection(bw, Head(wloc[w].todo))
    /\ UpdateLock' = 0
    /\ wloc' = [wloc EXCEPT ![w].todo = Tail(@)]
    /\ IF Len(wloc[w].todo) = 1
       THEN /\ wpc' = [wpc EXCEPT ![w] = "recv"]
            /\ accLog' = Append(accLog, [id |-> wloc[w].id, by |-> w])
       ELSE /\ wpc' = [wpc EXCEPT ![w] = "lock"]
            /\ accLog' = accLog
    /\ UNCHANGED <<inputVars, trainVars, mapVars, queryVars, viterbiVars, streamVars, mem,
                   bwPc, parallelism, nSpawned, bwWg, data, sentLog, ret>>

Worker(w) ==
    \/ WorkerRecv(w)
    \/ WorkerRecvClosed(w)
    \/ WorkerCompute(w)
    \/ WorkerLock(w)
    \/ WorkerUpdate(w)

\* The sender: a send into the buffer, a send met by a waiting receiver
\* when the channel has no buffer, and the close.
EnvSend(s) ==
    /\ Len(sentLog) < MaxData
    /\ CanSend(data)
    /\ data' = [data EXCEPT !.buf = Append(@, [id |-> Len(sentLog) + 1, sample |-> s])]
    /\ sentLog' = Append(sentLog, s)
    /\ UNCHANGED <<inputVars, trainVars, mapVars, queryVars, viterbiVars, streamVars, mem, bw, UpdateLock,
                   bwPc, parallelism, nSpawned, bwWg, wpc, wloc, accLog, ret>>

EnvHandoff(s, w) ==
    /\ Len(sentLog) < MaxData
    /\ ~data.closed
    /\ data.cap = 0
    /\ wpc[w] = "recv"
    /\ wloc' = [wloc EXCEPT ![w] = [id |-> Len(sentLog) + 1, sample |-> s, todo |-> <<>>]]
    /\ wpc' = [wpc EXCEPT ![w] = "accumulate"]
    /\ sentLog' = Append(sentLog, s)
    /\ UNCHANGED <<inputVars, trainVars, mapVars, queryVars, viterbiVars, streamVars, mem, bw, UpdateLock,
                   bwPc, parallelism, nSpawned, bwWg, data, accLog, ret>>

EnvClose ==
    /\ ~data.closed
    /\ data' = closeChan(data)
    /\ UNCHANGED <<inputVars, trainVars, mapVars, queryVars, viterbiVars, streamVars, mem, bw, UpdateLock,
                   bwPc, parallelism, nSpawned, bwWg, sentLog, wpc, wloc, accLog, ret>>

BWMain == BWCall \/ BWSpawn \/ BWWait \/ BWNormalize \/ BWResult

BWNext ==
    \/ BWCall
    \/ BWSpawn
    \/ BWWait
    \/ BWNormalize
    \/ BWResult
    \/ \E w \in Workers : Worker(w)
    \/ \E s \in BWSamples : EnvSend(s)
    \/ \E s \in BWSamples, w \in Workers : EnvHandoff(s, w)
    \/ EnvClose

SpecBW == BWInit /\ [][BWNext]_vars

\* Every goroutine of the program that can take a step is scheduled in the
\* end; nothing is assumed of the sender.
FairSpecBW ==
    /\ SpecBW
    /\ WF_vars(BWMain)
    /\ \A w \in Workers : WF_vars(Worker(w))




(***************************************************************************)
(* Reference definitions the claims compare the program against: plain     *)
(* rational sums, independent of addLogs and of the fast maps.             *)
(***************************************************************************)
RatAdd(a, b) == logOfExpSum[a, b]

RECURSIVE RatSumOver(_, _)
RatSumOver(m, ks) ==
    IF ks = {} THEN <<0, 1>>
    ELSE LET k == CHOOSE x \in ks : TRUE
         IN  RatAdd(m[k], RatSumOver(m, ks \ {k}))

\* The total probability a map of log-values holds.
ProbSum(m) == RatSumOver(m, DOMAIN m)

(***************************************************************************)
(* C8, as stated: for every model, every non-empty sequence and every      *)
(* timestep t, the probabilities of Dist(t) sum to 1.                      *)
(***************************************************************************)
C8_DistSumsToOne_AsStated ==
    pc = "Dist" => ProbSum(qDist) = <<1, 1>>

(***************************************************************************)
(* C8, amended: when the sequence has nonzero likelihood under the model   *)
(* (LogLikelihood() is not -Inf) the probabilities of Dist(t) sum to 1 at  *)
(* every timestep; when it has zero likelihood Dist(t) is empty.           *)
(***************************************************************************)
C8_DistSumsToOne ==
    pc = "Dist" =>
        IF IsNegInf(ForwardBackward_LogLikelihood(fb).val)
        THEN qDist = EmptyMap
        ELSE ProbSum(qDist) = <<1, 1>>

C8_Witness ==
    /\ pc = "Dist"
    /\ qT = 1
    /\ ~IsNegInf(ForwardBackward_LogLikelihood(fb).val)
    /\ Cardinality(DOMAIN qDist) = 2
    /\ \E s1, s2 \in DOMAIN qDist : qDist[s1] # qDist[s2]

(***************************************************************************)
(* C9: without a terminal state, Dist(T-1) has exactly the states of the   *)
(* last forward distribution, each with its forward value minus the        *)
(* log-sum-exp of all of that distribution's values.                       *)
(***************************************************************************)
C9_LastDistIsNormalizedForward ==
    (pc = "Dist" /\ h.TerminalState = Nil /\ qT = Len(obs) - 1) =>
        LET last == fb.ForwardOut[Len(obs)]
        IN  /\ DOMAIN qDist = DOMAIN last
            /\ \A s \in DOMAIN last : qDist[s] = LogMinus(last[s], ProbSum(last))

C9_Witness ==
    /\ pc = "Dist"
    /\ h.TerminalState = Nil
    /\ qT = Len(obs) - 1
    /\ qT = 1
    /\ Cardinality(DOMAIN qDist) = 2
    /\ \E s1, s2 \in DOMAIN qDist : qDist[s1] # qDist[s2]

(***************************************************************************)
(* C10: on the empty sequence LogLikelihood (the method and the function)  *)
(* returns 0 without a terminal state, Init's value of the terminal state  *)
(* when it has one, -Inf when it has none; it reads no forward or backward *)
(* output.                                                                 *)
(***************************************************************************)
C10_EmptySequenceLikelihood ==
    (pc \in {"fb.LogLikelihood", "LogLikelihood"} /\ Len(obs) = 0) =>
        /\ ~qLL.panic
        /\ qLL.reads = {}
        /\ h.TerminalState = Nil => qLL.val = LogZero
        /\ (h.TerminalState # Nil /\ h.TerminalState \in DOMAIN h.Init) =>
                qLL.val = h.Init[h.TerminalState]
        /\ (h.TerminalState # Nil /\ h.TerminalState \notin DOMAIN h.Init) =>
                qLL.val = NegInf

C10_Witness ==
    /\ pc = "fb.LogLikelihood"
    /\ Len(obs) = 0
    /\ h.TerminalState # Nil
    /\ h.TerminalState \in DOMAIN h.Init
    /\ qLL.val = InitW(NumStates)


(***************************************************************************)
(* The score of a state sequence for an observation sequence, as the       *)
(* product of the probabilities along it: Init of the first state, every   *)
(* emission, every transition, and with a terminal state the final hop     *)
(* into it.  An entry that is not listed counts as probability 0.  The     *)
(* empty sequence under a terminal state is the terminal state reached at  *)
(* once.                                                                   *)
(***************************************************************************)
InitP(hm, s) == IF s \in DOMAIN hm.Init THEN hm.Init[s] ELSE <<0, 1>>

TransP(hm, a, b) ==
    IF <<a, b>> \in DOMAIN hm.Transitions THEN hm.Transitions[<<a, b>>] ELSE <<0, 1>>

EmitP(hm, s, o) ==
    IF s \in DOMAIN hm.Emitter /\ o \in DOMAIN hm.Emitter[s]
    THEN hm.Emitter[s][o] ELSE <<0, 1>>

RatMul(a, b) == logPlus[a, b]

RECURSIVE PathProd(_, _, _, _)
PathProd(hm, o, q, t) ==
    IF t > Len(q) THEN <<1, 1>>
    ELSE RatMul(RatMul(IF t <= Len(o) THEN EmitP(hm, q[t], o[t]) ELSE <<1, 1>>,
                       IF t < Len(q) THEN TransP(hm, q[t], q[t + 1])
                       ELSE IF hm.TerminalState # Nil
                            THEN TransP(hm, q[t], hm.TerminalState)
                            ELSE <<1, 1>>),
                PathProd(hm, o, q, t + 1))

PathScore(hm, o, q) ==
    IF Len(q) = 0
    THEN IF hm.TerminalState # Nil THEN InitP(hm, hm.TerminalState) ELSE <<1, 1>>
    ELSE RatMul(InitP(hm, q[1]), PathProd(hm, o, q, 1))

RatLess(a, b) == logLess[a, b]

(***************************************************************************)
(* C6: when MostLikely returns a path, no state sequence of the same       *)
(* length scores higher.                                                   *)
(***************************************************************************)
C6_ViterbiIsOptimal ==
    (vPc = "done" /\ ~vResult.nil) =>
        \A q \in [1..Len(vResult.seq) -> StateSet] :
            ~RatLess(PathScore(h, obs, vResult.seq), PathScore(h, obs, q))

C6_Witness ==
    /\ vPc = "done"
    /\ ~vResult.nil
    /\ Len(obs) = 2
    /\ Len(vResult.seq) = 2
    /\ h.TerminalState # Nil
    /\ vResult.seq[1] # vResult.seq[2]
    /\ \E q \in [1..2 -> StateSet] :
            /\ RatLess(PathScore(h, obs, q), PathScore(h, obs, vResult.seq))
            /\ RatLess(<<0, 1>>, PathScore(h, obs, q))

(***************************************************************************)
(* C7: MostLikely returns nil whenever no state sequence has nonzero joint *)
(* probability with the observations, with or without a terminal state.    *)
(* Stated for the non-empty observation sequences, where a nil result and  *)
(* an empty path cannot be mistaken for each other.                        *)
(***************************************************************************)
C7_NilWhenNoPath ==
    (vPc = "done"
        /\ Len(obs) > 0
        /\ \A q \in [1..Len(obs) -> StateSet] : PathScore(h, obs, q) = <<0, 1>>)
    => vResult.nil

(***************************************************************************)
(* The stream the caller of ForwardProbs or BackwardProbs was handed.      *)
(***************************************************************************)
Stream == IF callee = "ForwardProbs" THEN fwd ELSE bwd

\* What holds of the stream at every moment after the call.
C4_Safety ==
    cPc \in {"recv", "stopped", "done"} =>
        /\ Len(cGot) + Len(Stream.res.buf) <= Len(obs)
        /\ Stream.res.closed => Len(cGot) + Len(Stream.res.buf) = Len(obs)
        /\ cPc = "done" => Len(cGot) = Len(obs) /\ Stream.res.closed
        /\ Len(obs) = 0 =>
                Stream.pc = "none" /\ Stream.res.closed /\ Stream.res.buf = <<>>
        /\ Len(obs) > 0 => Stream.pc \in {"run", "done"}
        /\ Stream.pc = "done" <=> (Len(obs) > 0 /\ Stream.res.closed)
        /\ Stream.pc = "done" => Len(cGot) >= Len(obs) - 1

(***************************************************************************)
(* C4, as stated, its last clause: when the consumer stops receiving       *)
(* before the last item, the producing goroutine stays blocked, so it has  *)
(* not terminated.                                                         *)
(***************************************************************************)
C4_BlockedWhenConsumerStopsEarly ==
    (cPc = "stopped" /\ Len(cGot) < Len(obs)) => Stream.pc # "done"

(***************************************************************************)
(* C4, amended: the channel of ForwardProbs and of BackwardProbs delivers  *)
(* exactly len(obs) items and is then closed (no item, no goroutine and an *)
(* already closed channel when len(obs) = 0); a consumer that keeps        *)
(* receiving reaches the close; the goroutine terminates once the consumer *)
(* has received all items but the last, which waits in the channel's       *)
(* one-item buffer; and it has not terminated, at any moment, while two or *)
(* more items are still to be received, so it stays blocked for ever when  *)
(* the consumer stops there.                                               *)
(***************************************************************************)
C4_StreamDelivery ==
    /\ []C4_Safety
    /\ <>(cPc \in {"stopped", "done"})
    /\ [](cPc = "done" => Len(cGot) = Len(obs))
    /\ (cPc \in {"recv", "stopped", "done"} /\ Len(obs) > 0
            /\ Len(cGot) >= Len(obs) - 1) ~> (Stream.pc = "done")

C4_Witness ==
    /\ callee = "BackwardProbs"
    /\ cPc = "done"
    /\ Len(obs) = 2
    /\ Len(cGot) = 2
    /\ cGot[1] # cGot[2]
    /\ bwd.pc = "done"

(***************************************************************************)
(* The forward and backward distributions by their definitions: sums of    *)
(* products over all state sequences.  The forward value of state s at     *)
(* timestep t is the probability of the first t+1 observations together    *)
(* with state s at t; the backward value is the probability of the         *)
(* observations after t (and of reaching the terminal state after the      *)
(* last, when there is one) given state s at t.  States whose value is 0   *)
(* are left out.  Here timesteps run from 1.                               *)
(***************************************************************************)
StatesOf(hm) == {hm.States[i] : i \in DOMAIN hm.States}

RECURSIVE FwdPathProd(_, _, _, _)
FwdPathProd(hm, o, q, k) ==
    IF k > Len(q) THEN <<1, 1>>
    ELSE RatMul(RatMul(EmitP(hm, q[k], o[k]),
                       IF k < Len(q) THEN TransP(hm, q[k], q[k + 1]) ELSE <<1, 1>>),
                FwdPathProd(hm, o, q, k + 1))

RefForwardOf(hm, o, t, s) ==
    LET qs == {q \in [1..t -> StatesOf(hm)] : q[t] = s}
        w == [q \in qs |-> RatMul(InitP(hm, q[1]), FwdPathProd(hm, o, q, 1))]
    IN  RatSumOver(w, qs)

RefForward(hm, o, t) ==
    [s \in {x \in StatesOf(hm) : RefForwardOf(hm, o, t, x) # <<0, 1>>} |->
        RefForwardOf(hm, o, t, s)]

RECURSIVE BwdPathProd(_, _, _, _)
BwdPathProd(hm, o, q, k) ==
    IF k >= Len(o)
    THEN IF hm.TerminalState # Nil THEN TransP(hm, q[k], hm.TerminalState)
         ELSE <<1, 1>>
    ELSE RatMul(RatMul(TransP(hm, q[k], q[k + 1]), EmitP(hm, q[k + 1], o[k + 1])),
                BwdPathProd(hm, o, q, k + 1))

RefBackwardOf(hm, o, t, s) ==
    LET qs == {q \in [t..Len(o) -> StatesOf(hm)] : q[t] = s}
        w == [q \in qs |-> BwdPathProd(hm, o, q, t)]
    IN  RatSumOver(w, qs)

RefBackward(hm, o, t) ==
    [s \in {x \in StatesOf(hm) : RefBackwardOf(hm, o, t, x) # <<0, 1>>} |->
        RefBackwardOf(hm, o, t, s)]

IsPrefix(a, b) == Len(a) <= Len(b) /\ \A i \in 1..Len(a) : a[i] = b[i]

(***************************************************************************)
(* C5: NewForwardBackward returns only after both goroutines have drained  *)
(* their channels and finished; on return ForwardOut and BackwardOut have  *)
(* len(Obs) entries, ForwardOut[t] the forward distribution of timestep t  *)
(* and BackwardOut[k] the backward distribution of timestep len(Obs)-1-k,  *)
(* whatever the interleaving; and at every moment each slice holds a       *)
(* prefix of its own pass's items and nothing else.                        *)
(***************************************************************************)
C5_ForkJoin ==
    LET T == Len(obs)
        fwdRef == [t \in 1..T |-> RefForward(h, obs, t)]
        bwdRef == [k \in 1..T |-> RefBackward(h, obs, T + 1 - k)]
    IN  /\ IsPrefix(res.ForwardOut, fwdRef)
        /\ IsPrefix(res.BackwardOut, bwdRef)
        /\ nfbPc = "returned" =>
            /\ \A g \in Tasks : gPc[g] = "done"
            /\ fwd.pc = "done" /\ RecvClosed(fwd.res)
            /\ bwd.pc = "done" /\ RecvClosed(bwd.res)
            /\ Len(res.ForwardOut) = T
            /\ Len(res.BackwardOut) = T
            /\ res.ForwardOut = fwdRef
            /\ res.BackwardOut = bwdRef
            /\ res = NewForwardBackward(h, obs)

C5_Witness ==
    /\ nfbPc = "returned"
    /\ Len(obs) = 2
    /\ h.TerminalState # Nil
    /\ Cardinality(DOMAIN res.ForwardOut[2]) = 2
    /\ Cardinality(DOMAIN res.BackwardOut[2]) = 2
    /\ res.ForwardOut[1] # res.ForwardOut[2]
    /\ res.BackwardOut[1] # res.BackwardOut[2]

(***************************************************************************)
(* C1: BaumWelch never writes to its input model: at every moment the      *)
(* struct h points to and its three maps hold what they held at the call;  *)
(* the pointer returned is not h, the Init, Emitter and Transitions of the *)
(* returned struct are maps at addresses that did not exist at the call,   *)
(* and its States and TerminalState equal the input's.                     *)
(***************************************************************************)
C1_InputUntouched ==
    LET atCall == Store(h, InputPtr)
    IN  /\ bwPc # "idle" =>
            /\ \A a \in DOMAIN atCall : a \in DOMAIN mem /\ mem[a] = atCall[a]
            /\ Deref(mem, InputPtr) = h
        /\ bwPc = "returned" =>
            /\ ret # InputPtr
            /\ ret \in DOMAIN mem
            /\ {mem[ret].Init, mem[ret].Emitter, mem[ret].Transitions}
                    \cap DOMAIN atCall = {}
            /\ Cardinality({ret, mem[ret].Init, mem[ret].Emitter,
                            mem[ret].Transitions}) = 4
            /\ mem[ret].States = h.States
            /\ mem[ret].TerminalState = h.TerminalState

C1_Witness ==
    /\ bwPc = "returned"
    /\ Len(sentLog) = 2
    /\ Deref(mem, ret).Init # h.Init
    /\ Deref(mem, ret).Transitions # h.Transitions
    /\ Deref(mem, ret).Emitter # h.Emitter
    /\ Deref(mem, ret).Transitions # EmptyMap

\* Accumulate run on each sample in turn, one call after the other.
RECURSIVE AccumulateAll(_, _, _, _)
AccumulateAll(b, hm, samples, k) ==
    IF k > Len(samples) THEN b
    ELSE AccumulateAll(Accumulate(b, hm, samples[k]), hm, samples, k + 1)

\* What holds once wg.Wait() has returned.
C2_Safety ==
    bwPc \in {"normalize", "result", "returned"} =>
        /\ data.closed
        /\ data.buf = <<>>
        /\ \A w \in Workers :
                wpc[w] = IF w <= parallelism THEN "done" ELSE "none"
        /\ UpdateLock = 0
        /\ Len(accLog) = Len(sentLog)
        /\ \A id \in 1..Len(sentLog) :
                Cardinality({k \in 1..Len(accLog) : accLog[k].id = id}) = 1
        /\ bwPc = "normalize" =>
                bw = AccumulateAll(newBaumWelch(InputPtr, h), h, sentLog, 1)

(***************************************************************************)
(* C2: with parallelism >= 0, once the data channel is closed BaumWelch    *)
(* returns; Normalize and Result run only after the channel is closed and  *)
(* drained and every worker has left its loop, every sample sent having    *)
(* been accumulated exactly once (by one worker, and the tallies being     *)
(* those of accumulating each sample once); and BaumWelch has not returned *)
(* at any moment at which the channel is not closed.                       *)
(***************************************************************************)
C2_JoinThenReturn ==
    /\ []C2_Safety
    /\ [](bwPc = "returned" => data.closed)
    /\ data.closed ~> (bwPc = "returned")

C2_Witness ==
    /\ bwPc = "returned"
    /\ Len(sentLog) = 2
    /\ Len(accLog) = 2
    /\ accLog[1].by # accLog[2].by
    /\ accLog[1].id = 2

(***************************************************************************)
(* C3: a worker is inside a critical section exactly when it holds         *)
(* UpdateLock, so at most one worker is; a worker receiving from the data  *)
(* channel or computing NewForwardBackward, Dist and fastCondDist does not *)
(* hold it; and while any worker is running, every step that changes a     *)
(* tally is the step of the worker that holds UpdateLock.                  *)
(***************************************************************************)
C3_TalliesUnderLock ==
    /\ [](/\ \A w \in Workers : wpc[w] = "update" <=> UpdateLock = w
          /\ Cardinality({w \in Workers : wpc[w] = "update"}) <= 1
          /\ \A w \in Workers :
                wpc[w] \in {"recv", "accumulate", "lock"} => UpdateLock # w)
    /\ [][(Tallies(bw') # Tallies(bw) /\ \E w \in Workers : wpc[w] \notin {"none", "done"})
            => (UpdateLock \in Workers /\ wpc[UpdateLock] = "update"
                    /\ wpc'[UpdateLock] # "update")]_vars

C3_Witness ==
    \E w1, w2 \in Workers :
        /\ wpc[w1] = "update"
        /\ UpdateLock = w1
        /\ wpc[w2] = "lock"
        /\ bw.InitTotal # NegInf
        /\ Len(wloc[w1].todo) > 1

(***************************************************************************)
(* C11: for every model and every observation sequence, empty or not, the  *)
(* function LogLikelihood(h, obs) returns the value that the method        *)
(* LogLikelihood returns on NewForwardBackward(h, obs), and neither panics. *)
(***************************************************************************)
C11_LikelihoodFormsAgree ==
    pc = "LogLikelihood" =>
        LET viaFB == ForwardBackward_LogLikelihood(NewForwardBackward(h, obs))
        IN  /\ ~qLL.panic
            /\ ~viaFB.panic
            /\ qLL.val = viaFB.val

C11_Witness ==
    /\ pc = "LogLikelihood"
    /\ Len(obs) = MaxLen
    /\ h.TerminalState # Nil
    /\ ~IsNegInf(qLL.val)
    /\ qLL.val # LogLikelihoodForwardOnly(h, obs).val

(***************************************************************************)
(* C12: CondDist(t), in both of its forms and so fastCondDist(t), returns  *)
(* a result exactly when 1 <= t <= len(Obs).  For every other t the call   *)
(* is aborted and yields no result: by panic("time out of bounds") when    *)
(* t = 0 or t > len(Obs), and, for a negative t, which passes that check,  *)
(* by the run-time panic of reading BackwardOut outside its bounds.        *)
(***************************************************************************)
C12_CondDistRange ==
    pc = "CondDist" =>
        \A form \in CondForms :
            /\ qT \in 1..Len(obs) <=> qCond[form].abort = "none"
            /\ qT \notin 1..Len(obs) => qCond[form].res = NoCondDist
            /\ (qT = 0 \/ qT > Len(obs)) => qCond[form].abort = "time out of bounds"
            /\ qT < 0 => qCond[form].abort = "index out of range"
            /\ fastCondDistPanics(fb, qT) <=> (qT = 0 \/ qT > Len(obs))

C12_Witness ==
    /\ pc = "CondDist"
    /\ Len(obs) = MaxLen
    /\ qT < 0
    /\ \A form \in CondForms :
            qCond[form].abort = "index out of range" /\ qCond[form].res = NoCondDist

(***************************************************************************)
(* Training: BaumWelch called again and again on one data set, each call   *)
(* starting from the model the call before returned.  A call is taken as a *)
(* whole: its tallies are those of Accumulate run on the samples one after *)
(* another, which is what its workers leave when wg.Wait() returns.        *)
(***************************************************************************)
MaxSteps == 2

\* BaumWelch with a worker that leaves its loop after its first sample.
BaumWelchFirstSampleOnly(hm, samples) ==
    Bind(Normalize(AccumulateAll(newBaumWelch(InputPtr, hm), hm,
                                 SubSeq(samples, 1, IF Len(samples) > 0 THEN 1 ELSE 0), 1)),
         LAMBDA b :
            Bind(Result(Store(hm, InputPtr), b), LAMBDA r : Deref(r.mem, r.ptr)))

\* The model BaumWelch(h, data, parallelism) returns for the samples sent.
BaumWelchOf(hm, samples) ==
    Bind(Normalize(AccumulateAll(newBaumWelch(InputPtr, hm), hm, samples, 1)),
         LAMBDA b :
            Bind(Result(Store(hm, InputPtr), b), LAMBDA r : Deref(r.mem, r.ptr)))

\* LogLikelihood(hm, sample) of each sample, the terms of the data
\* log-likelihood.
sampleLogLikelihoods(hm, samples) ==
    [k \in 1..Len(samples) |-> LogLikelihood(hm, samples[k]).val]

TrainModels ==
    StreamModels \cup {OneStateModel(Nil), OneStateModel(AllStates[1]), ZeroStateModel}

\* The denominators of a model's probabilities.  A step is taken from the
\* models whose denominators are at most MaxDenominator, which keeps the
\* exact arithmetic of the step within the integers at hand.
MaxDenominator == 4

denominators(hm) ==
    {hm.Init[s][2] : s \in DOMAIN hm.Init}
        \cup {hm.Transitions[k][2] : k \in DOMAIN hm.Transitions}
        \cup UNION {{hm.Emitter[s][o][2] : o \in DOMAIN hm.Emitter[s]} :
                        s \in DOMAIN hm.Emitter}

RECURSIVE totalLen(_, _)
totalLen(samples, k) ==
    IF k > Len(samples) THEN 0 ELSE Len(samples[k]) + totalLen(samples, k + 1)

\* The data sets of at most MaxData samples and MaxLen observations in all.
TrainData ==
    {d \in UNION {[1..n -> ObsSeqs] : n \in 0..MaxData} : totalLen(d, 1) <= MaxLen}

TrainInit ==
    /\ h \in TrainModels
    /\ tFirst = h
    /\ tData \in TrainData
    /\ tStep = 0
    /\ tLL = <<sampleLogLikelihoods(h, tData)>>
    /\ obs = <<>>
    /\ QueryIdle
    /\ ViterbiIdle
    /\ StreamIdle
    /\ BWIdle
    /\ MapIdle

TrainStep ==
    /\ tStep < MaxSteps
    /\ \A d \in denominators(h) : d <= MaxDenominator
    /\ \E trained \in {BaumWelchOf(h, tData)} :
            /\ h' = trained
            /\ tLL' = Append(tLL, sampleLogLikelihoods(trained, tData))
    /\ tStep' = tStep + 1
    /\ UNCHANGED <<obs, queryVars, viterbiVars, streamVars, bwVars, mapVars, tFirst, tData>>

TrainNext == TrainStep

SpecTrain == TrainInit /\ [][TrainNext]_vars


\* The sum over the samples of new[k] - old[k], as one log-value.
RECURSIVE logGain(_, _, _)
logGain(old, new, k) ==
    IF k > Len(old) THEN LogZero
    ELSE LogPlus(LogMinus(new[k], old[k]), logGain(old, new, k + 1))

\* sum(new) >= sum(old) as the float64 comparison decides it: false when a
\* sum is NaN, and a sum is -Inf when one of its terms is.
sumNotLess(new, old) ==
    LET terms == 1..Len(old)
    IN  IF \E k \in terms : new[k] = NaN \/ old[k] = NaN THEN FALSE
        ELSE IF \E k \in terms : IsNegInf(old[k]) THEN TRUE
        ELSE IF \E k \in terms : IsNegInf(new[k]) THEN FALSE
        ELSE ~LogLess(logGain(old, new, 1), LogZero)

\* Every Init, transition row and emission row of the model sums to at most 1.
RowsAtMostOne(hm) ==
    /\ ~RatLess(LogZero, ProbSum(hm.Init))
    /\ \A s \in StatesOf(hm) :
            ~RatLess(LogZero,
                     RatSumOver([u \in StatesOf(hm) |-> TransP(hm, s, u)], StatesOf(hm)))
    /\ \A s \in DOMAIN hm.Emitter : ~RatLess(LogZero, ProbSum(hm.Emitter[s]))

(***************************************************************************)
(* C13: one BaumWelch step does not decrease the data log-likelihood: for  *)
(* every data set and every starting model whose tables hold              *)
(* probabilities (Init, each transition row and each emission row summing  *)
(* to at most 1), the sum over the samples of LogLikelihood under the      *)
(* returned model is greater than or equal to the sum under the model the  *)
(* step started from, at the first step and at each step after it.         *)
(***************************************************************************)
C13_LikelihoodNotDecreased ==
    RowsAtMostOne(tFirst) =>
        \A i \in 1..(Len(tLL) - 1) : sumNotLess(tLL[i + 1], tLL[i])

C13_Witness ==
    /\ tStep = MaxSteps
    /\ Len(tData) = MaxData
    /\ Len(tFirst.States) = NumStates
    /\ \A i \in 1..MaxSteps :
            /\ sumNotLess(tLL[i + 1], tLL[i])
            /\ ~sumNotLess(tLL[i], tLL[i + 1])


\* The sample is the first observation, repeated.
AllFirstObs(sample) == \A k \in 1..Len(sample) : sample[k] = ObsNames[1]

SameTables(a, b) ==
    /\ a.Init = b.Init
    /\ a.Transitions = b.Transitions
    /\ a.Emitter = b.Emitter

(***************************************************************************)
(* C14, as stated: from the one-state model whose initial probability,     *)
(* self-transition and emission each have probability 1, BaumWelch over    *)
(* one sequence of that observation, of any length >= 1, returns a model   *)
(* with the same Init, Transitions and emission table.                     *)
(***************************************************************************)
C14_OneStateFixedPoint_AsStated ==
    (/\ tStep >= 1
     /\ tFirst = OneStateModel(Nil)
     /\ Len(tData) = 1
     /\ Len(tData[1]) >= 1
     /\ AllFirstObs(tData[1]))
    => SameTables(h, tFirst)


(***************************************************************************)
(* C14, amended: from the one-state model whose initial probability,       *)
(* self-transition and emission each have probability 1, BaumWelch over    *)
(* one sequence of that observation returns the same Init and the same     *)
(* emission table for every length >= 1, and the same Transitions for      *)
(* every length >= 2, or >= 1 when the state is also the terminal state.   *)
(* For a sequence of length 1 and no terminal state no transition is       *)
(* tallied and the returned Transitions is empty.  The same holds after    *)
(* each further step.                                                      *)
(***************************************************************************)
C14_OneStateFixedPoint ==
    (/\ tStep >= 1
     /\ tFirst \in {OneStateModel(Nil), OneStateModel(AllStates[1])}
     /\ Len(tData) = 1
     /\ Len(tData[1]) >= 1
     /\ AllFirstObs(tData[1]))
    => /\ h.Init = tFirst.Init
       /\ h.Emitter = tFirst.Emitter
       /\ h.States = tFirst.States
       /\ h.TerminalState = tFirst.TerminalState
       /\ h.Transitions =
            IF Len(tData[1]) >= 2 \/ tFirst.TerminalState # Nil
            THEN tFirst.Transitions
            ELSE EmptyMap

C14_Witness ==
    /\ tStep = MaxSteps
    /\ tFirst = OneStateModel(Nil)
    /\ tData = <<[k \in 1..MaxLen |-> ObsNames[1]]>>
    /\ SameTables(h, tFirst)
    /\ h.Transitions # EmptyMap


(***************************************************************************)
(* C15: for the model with zero states every algorithm completes without a *)
(* panic and yields empty results, for every observation sequence: the     *)
(* forward and backward passes deliver len(obs) empty distributions,       *)
(* NewForwardBackward returns with len(obs) empty entries in ForwardOut    *)
(* and in BackwardOut, Dist(t) reads inside both slices and is empty for   *)
(* every timestep, and BaumWelch returns a model with empty Init and empty *)
(* Transitions, at the first step and at each step after it.               *)
(***************************************************************************)
C15_ZeroStates ==
    tFirst = ZeroStateModel =>
        /\ \A k \in 1..Len(tData) :
            LET o == tData[k]
                c == newHMMCache(h)
                f == NewForwardBackward(h, o)
            IN  /\ forwardProbs(c, h, o) = [t \in 1..Len(o) |-> EmptyMap]
                /\ backwardProbs(c, h, o) = [t \in 1..Len(o) |-> EmptyMap]
                /\ f.ForwardOut = [t \in 1..Len(o) |-> EmptyMap]
                /\ f.BackwardOut = [t \in 1..Len(o) |-> EmptyMap]
                /\ \A t \in 0..(Len(o) - 1) :
                        ~DistIndexPanics(f, t) /\ Dist(f, t) = EmptyMap
                /\ ~LogLikelihood(h, o).panic
        /\ h.States = <<>>
        /\ h.Init = EmptyMap
        /\ h.Transitions = EmptyMap
        /\ h.Emitter = [s \in {} |-> EmptyMap]

C15_Witness ==
    /\ tFirst = ZeroStateModel
    /\ tStep = MaxSteps
    /\ Len(tData) = MaxData
    /\ Len(tData[1]) >= 1
    /\ Len(NewForwardBackward(h, tData[1]).ForwardOut) = Len(tData[1])
    /\ h.Init = EmptyMap


(***************************************************************************)
(* C16, as stated: MostLikely on a model with zero states is a fatal       *)
(* invalid query: the call panics, so it never returns, with a result or   *)
(* with nil.                                                               *)
(***************************************************************************)
C16_ZeroStatesDecodingAborts ==
    Len(h.States) = 0 => vPc # "done"


\* The tally of a fastStateMap at an index, -Inf where it holds no entry.
tallyAt(f, i) == IF f.present[i] THEN f.values[i] ELSE NegInf

\* Accumulate is at work on the sample of worker w.
Accumulating(w) == wpc[w] \in {"accumulate", "lock", "update"}

(***************************************************************************)
(* C17: Accumulate on the empty sequence.  With no terminal state it       *)
(* returns without taking UpdateLock and changes no tally.  With a         *)
(* terminal state its one critical section adds 1 to the count InitTotal   *)
(* holds (log-sum-exp with 0) and 1 to the count InitTally holds at the    *)
(* terminal state's index, changes no other entry of InitTally, and        *)
(* changes no transition, from-state-total, emission or emission-total     *)
(* tally; nothing else it does changes any tally.                          *)
(***************************************************************************)
C17_AccumulateEmpty ==
    [][\A w \in Workers :
        (Accumulating(w) /\ wloc[w].sample = <<>> /\ wpc'[w] # wpc[w]) =>
            LET hm == Deref(mem, bw.HMM)
                ti == bw.TerminalIndex
            IN  IF wpc[w] = "accumulate"
                THEN /\ bw' = bw
                     /\ wpc'[w] = IF hm.TerminalState = Nil THEN "recv" ELSE "lock"
                ELSE IF wpc[w] = "lock"
                THEN bw' = bw /\ hm.TerminalState # Nil
                ELSE /\ hm.TerminalState # Nil
                     /\ hm.States[ti] = hm.TerminalState
                     /\ wpc'[w] = "recv"
                     /\ bw'.InitTotal = RatAdd(bw.InitTotal, <<1, 1>>)
                     /\ bw'.InitTally.present[ti]
                     /\ bw'.InitTally.values[ti] = RatAdd(tallyAt(bw.InitTally, ti), <<1, 1>>)
                     /\ \A i \in DOMAIN bw.InitTally.present \ {ti} :
                            /\ bw'.InitTally.present[i] = bw.InitTally.present[i]
                            /\ bw'.InitTally.values[i] = bw.InitTally.values[i]
                     /\ bw'.TransTally = bw.TransTally
                     /\ bw'.FromStateTotals = bw.FromStateTotals
                     /\ bw'.EmitTally = bw.EmitTally
                     /\ bw'.EmitTotals = bw.EmitTotals]_vars

C17_Witness ==
    \E w \in Workers :
        /\ wpc[w] = "recv"
        /\ wloc[w].sample = <<>>
        /\ Len(accLog) = 2
        /\ accLog[2] = [id |-> wloc[w].id, by |-> w]
        /\ Deref(mem, bw.HMM).TerminalState # Nil
        /\ bw.InitTally.present[bw.TerminalIndex]
        /\ bw.InitTotal = <<2, 1>>
        /\ bw.InitTally.values[bw.TerminalIndex] # <<1, 1>>


(***************************************************************************)
(* The tallies of Accumulate by what they count.  For one sample of length *)
(* T, timesteps running from 0: the last timestep t whose transition is    *)
(* counted, then for each tally the sum of the probabilities it is to      *)
(* hold, read from Dist(t-1) and from CondDist(t).                         *)
(***************************************************************************)
lastTransition(hm, sample) ==
    IF hm.TerminalState = Nil THEN Len(sample) - 1 ELSE Len(sample)

probAt(m, k) == IF k \in DOMAIN m THEN m[k] ELSE NegInf

refFromStateTotal(hm, sample, s) ==
    LET f == NewForwardBackward(hm, sample)
        ts == 1..lastTransition(hm, sample)
    IN  RatSumOver([t \in ts |-> probAt(Dist(f, t - 1), s)], ts)

refTransTally(hm, sample, s, u) ==
    LET f == NewForwardBackward(hm, sample)
        ts == 1..lastTransition(hm, sample)
    IN  RatSumOver([t \in ts |->
                        LET cd == CondDist(f, t).res
                        IN  IF s \in DOMAIN cd
                            THEN RatMul(probAt(Dist(f, t - 1), s), probAt(cd[s], u))
                            ELSE NegInf],
                   ts)

refEmitTotal(hm, sample, s) ==
    LET f == NewForwardBackward(hm, sample)
        ts == 0..(Len(sample) - 1)
    IN  RatSumOver([t \in ts |-> probAt(Dist(f, t), s)], ts)

refEmitTally(hm, sample, s, o) ==
    LET f == NewForwardBackward(hm, sample)
        ts == {t \in 0..(Len(sample) - 1) : sample[t + 1] = o}
    IN  RatSumOver([t \in ts |-> probAt(Dist(f, t), s)], ts)

\* The sum of Ref(sample) over the samples.
overSamples(samples, Ref(_)) ==
    RatSumOver([k \in 1..Len(samples) |-> Ref(samples[k])], 1..Len(samples))

(***************************************************************************)
(* C18: once every sample sent has been accumulated, each tally holds the  *)
(* sum over the samples of its contributions: FromStateTotals the          *)
(* probabilities Dist(t-1) gives the from-state and TransTally those       *)
(* multiplied by CondDist(t), for exactly the timesteps t = 1..T of a      *)
(* sample of length T when a terminal state is configured and exactly      *)
(* t = 1..T-1 when none is (none at all for T = 1); EmitTotals and         *)
(* EmitTally the probabilities of Dist(t) for every timestep t = 0..T-1,   *)
(* with or without a terminal state.                                       *)
(***************************************************************************)
C18_TalliesByTimestep ==
    bwPc = "normalize" =>
        \A i \in 1..Len(h.States) :
            LET s == h.States[i]
            IN  /\ tallyAt(bw.FromStateTotals, i)
                    = overSamples(sentLog, LAMBDA sample : refFromStateTotal(h, sample, s))
                /\ \A j \in 1..Len(h.States) :
                        tallyAt(bw.TransTally[i], j)
                            = overSamples(sentLog,
                                LAMBDA sample : refTransTally(h, sample, s, h.States[j]))
                /\ tallyAt(bw.EmitTotals, i)
                    = overSamples(sentLog, LAMBDA sample : refEmitTotal(h, sample, s))
                /\ \A o \in ObsSet :
                        probAt(bw.EmitTally[i], o)
                            = overSamples(sentLog, LAMBDA sample : refEmitTally(h, sample, s, o))

C18_Witness ==
    /\ bwPc = "normalize"
    /\ h.TerminalState = Nil
    /\ Len(sentLog) = 2
    /\ Len(sentLog[1]) = 1
    /\ Len(sentLog[2]) = 2
    /\ RatSumOver([i \in 1..Len(h.States) |-> tallyAt(bw.FromStateTotals, i)],
                  1..Len(h.States)) = <<1, 1>>
    /\ RatSumOver([i \in 1..Len(h.States) |-> tallyAt(bw.EmitTotals, i)],
                  1..Len(h.States)) = <<3, 1>>
    /\ \E i, j \in 1..Len(h.States) : i # j /\ bw.TransTally[i].present[j]


\* The destinations the model gives a from-state with nonzero probability,
\* and the transition row of the from-state divided by its sum.
destinationsOf(hm, from) == {u \in StatesOf(hm) : TransP(hm, from, u)[1] # 0}

normalizedRow(hm, from) ==
    LET row == destinationsOf(hm, from)
        total == RatSumOver([u \in row |-> TransP(hm, from, u)], row)
    IN  [u \in row |-> LogMinus(TransP(hm, from, u), total)]

(***************************************************************************)
(* C19: CondDist(len(Obs)), in both of its forms.  Its from-states are     *)
(* among those Dist(len(Obs)-1) lists.  With a terminal state, every       *)
(* from-state of nonzero posterior that has a transition of nonzero        *)
(* probability into the terminal state gets exactly {terminal: 0}, and no  *)
(* from-state gets any other destination: neither an emission nor a        *)
(* backward term enters.  With no terminal state, every from-state of      *)
(* nonzero posterior gets its transition row divided by the row's sum,     *)
(* every transition out of it being used.                                  *)
(***************************************************************************)
C19_CondDistAfterLast ==
    (pc = "CondDist" /\ qT = Len(obs) /\ qT >= 1) =>
        LET prev == Dist(fb, qT - 1)
            term == h.TerminalState
        IN  \A form \in CondForms :
                LET cd == qCond[form].res
                IN  /\ qCond[form].abort = "none"
                    /\ DOMAIN cd \subseteq DOMAIN prev
                    /\ \A from \in DOMAIN prev :
                        prev[from][1] # 0 =>
                            IF term # Nil
                            THEN TransP(h, from, term)[1] # 0 =>
                                    from \in DOMAIN cd /\ cd[from] = [u \in {term} |-> LogZero]
                            ELSE destinationsOf(h, from) # {} =>
                                    from \in DOMAIN cd /\ cd[from] = normalizedRow(h, from)
                    /\ term # Nil => \A from \in DOMAIN cd : DOMAIN cd[from] \subseteq {term}

C19_Witness ==
    /\ pc = "CondDist"
    /\ qT = Len(obs)
    /\ qT = MaxLen
    /\ h.TerminalState # Nil
    /\ \A form \in CondForms :
            /\ Cardinality(DOMAIN qCond[form].res) = NumStates
            /\ \A from \in DOMAIN qCond[form].res :
                    /\ qCond[form].res[from] = [u \in {h.TerminalState} |-> LogZero]
                    /\ \E u \in StateSet \ {h.TerminalState} : TransP(h, from, u)[1] # 0


\* The first item BackwardProbs has sent, received already or still in the
\* channel's buffer.
firstSent == IF Len(cGot) >= 1 THEN cGot[1] ELSE Head(bwd.res.buf)

(***************************************************************************)
(* C20: the first distribution BackwardProbs delivers is the initial       *)
(* backward distribution, whatever the observations are: without a         *)
(* terminal state it maps every state of the model to 0; with one it lists *)
(* exactly the states that have a transition of finite log-probability     *)
(* into the terminal state, each with that log-probability, and no other   *)
(* state, not even one that reaches the terminal state through others.     *)
(***************************************************************************)
C20_FirstBackwardItem ==
    (callee = "BackwardProbs" /\ (Len(cGot) >= 1 \/ Len(bwd.res.buf) >= 1)) =>
        firstSent =
            IF h.TerminalState = Nil
            THEN [s \in StatesOf(h) |-> LogZero]
            ELSE [s \in {u \in StatesOf(h) : TransP(h, u, h.TerminalState)[1] # 0} |->
                    TransP(h, s, h.TerminalState)]

C20_Witness ==
    /\ callee = "BackwardProbs"
    /\ h = ChainModel
    /\ Len(cGot) = MaxLen
    /\ cGot[1] = [s \in {StateNames[2]} |-> <<1, 2>>]
    /\ StateNames[1] \in DOMAIN cGot[2]
    /\ StateNames[1] \notin DOMAIN cGot[1]


\* Worker v has run the transition update of one from-state and its next
\* critical section is that of another from-state of the same timestep.
BetweenFromStates(v) ==
    /\ wpc[v] = "lock"
    /\ Len(wloc[v].todo) >= 1
    /\ Head(wloc[v].todo).kind = "trans"
    /\ LET plan == accumulatePlan(Deref(mem, bw.HMM), wloc[v].sample)
           done == Len(plan) - Len(wloc[v].todo)
       IN  /\ done >= 1
           /\ plan[done].kind = "trans"
           /\ plan[done].t = Head(wloc[v].todo).t

(***************************************************************************)
(* C21, as stated: the transition-tally update of one timestep is one      *)
(* step under a single acquisition of UpdateLock, so that no tally changes *)
(* while a worker is between the updates of two from-states of the same    *)
(* timestep.                                                               *)
(***************************************************************************)
C21_TimestepUnderOneLock ==
    [][(\E v \in Workers : BetweenFromStates(v)) => Tallies(bw') = Tallies(bw)]_vars

(***************************************************************************)
(* C21, amended: in the transition loop of Accumulate UpdateLock is taken  *)
(* and released once for each from-state of a timestep.  The update of     *)
(* one from-state, its FromStateTotals entry and its row of TransTally, is *)
(* one step of the worker that holds the lock, changes no other entry and  *)
(* no other tally, and ends with the lock free; between the from-states of *)
(* one timestep the worker does not hold the lock.                         *)
(***************************************************************************)
C21_FromStateUnderOneLock ==
    /\ [](\A v \in Workers : BetweenFromStates(v) => UpdateLock # v)
    /\ [][\A w \in Workers :
            (wpc[w] = "update" /\ wpc'[w] # "update"
                /\ Head(wloc[w].todo).kind = "trans") =>
                LET sec == Head(wloc[w].todo)
                IN  /\ UpdateLock = w
                    /\ UpdateLock' = 0
                    /\ wloc'[w].todo = Tail(wloc[w].todo)
                    /\ bw'.FromStateTotals.present[sec.from]
                    /\ bw'.FromStateTotals.values[sec.from]
                            = RatAdd(tallyAt(bw.FromStateTotals, sec.from), sec.prob)
                    /\ \A i \in DOMAIN bw.TransTally \ {sec.from} :
                            /\ bw'.TransTally[i] = bw.TransTally[i]
                            /\ bw'.FromStateTotals.present[i] = bw.FromStateTotals.present[i]
                            /\ bw'.FromStateTotals.values[i] = bw.FromStateTotals.values[i]
                    /\ \A j \in DOMAIN bw.TransTally[sec.from].present :
                            tallyAt(bw'.TransTally[sec.from], j)
                                = RatAdd(tallyAt(bw.TransTally[sec.from], j),
                                         RatMul(tallyAt(sec.dist, j), sec.prob))
                    /\ bw'.InitTally = bw.InitTally
                    /\ bw'.InitTotal = bw.InitTotal
                    /\ bw'.EmitTally = bw.EmitTally
                    /\ bw'.EmitTotals = bw.EmitTotals]_vars

C21_Witness ==
    \E v, w \in Workers :
        /\ v # w
        /\ BetweenFromStates(v)
        /\ wpc[w] = "update"
        /\ UpdateLock = w
        /\ Head(wloc[w].todo).kind = "trans"
        /\ Head(wloc[w].todo).t = Head(wloc[v].todo).t

(***************************************************************************)
(* C22: ties between paths reaching the same state in viterbiTransition.   *)
(***************************************************************************)
\* The score of the path that extends paths through order[k], for the
\* transitions viterbiTransition does not skip.
candidateProb(hm, paths, order, k) ==
    LogPlus(hm.Transitions[order[k]], paths[order[k][1]].LogProb)

\* The positions in order of the transitions into state d that
\* viterbiTransition does not skip.
candidates(hm, paths, order, d) ==
    {k \in 1..Len(order) :
        /\ order[k][2] = d
        /\ order[k][1] \in DOMAIN paths
        /\ ~IsNegInf(candidateProb(hm, paths, order, k))}

\* Those of them no other one scores strictly more than.
bestCandidates(hm, paths, order, d) ==
    LET cand == candidates(hm, paths, order, d)
    IN  {k \in cand :
            \A j \in cand : ~LogLess(candidateProb(hm, paths, order, k),
                                     candidateProb(hm, paths, order, j))}

\* Two transitions reach state d with equal scores that nothing exceeds.
TiedAt(hm, paths, order, d) ==
    Cardinality(bestCandidates(hm, paths, order, d)) >= 2

\* The path viterbiTransition keeps for d when the one through order[k] wins.
pathThrough(paths, order, k) ==
    Append(paths[order[k][1]].Seq, order[k][2])

\* C22 as stated: in viterbiTransition, of the paths reaching one state with
\* equal best scores the one through the transition examined last is kept.
C22_TieKeepsLater ==
    vPc = "trans" =>
        \A order \in Perms(DOMAIN h.Transitions) :
            LET out == viterbiTransition(h, vPaths, order)
            IN  \A d \in DOMAIN out :
                    LET best == bestCandidates(h, vPaths, order, d)
                        last == CHOOSE k \in best : \A j \in best : j <= k
                    IN  out[d].Seq = pathThrough(vPaths, order, last)

\* C22: in viterbiTransition, every state some unskipped transition reaches
\* gets a path, its score is the best of the candidates', and of the paths
\* reaching it with equal best scores the one through the transition examined
\* first is kept: a later candidate replaces the kept one only when it
\* scores strictly more.
C22_TieKeepsEarlier ==
    vPc = "trans" =>
        \A order \in Perms(DOMAIN h.Transitions) :
            LET out == viterbiTransition(h, vPaths, order)
            IN  /\ DOMAIN out = {d \in StatesOf(h) \cup {order[k][2] : k \in 1..Len(order)} :
                                    candidates(h, vPaths, order, d) # {}}
                /\ \A d \in DOMAIN out :
                    LET best == bestCandidates(h, vPaths, order, d)
                        first == CHOOSE k \in best : \A j \in best : k <= j
                    IN  /\ out[d].Seq = pathThrough(vPaths, order, first)
                        /\ out[d].LogProb = candidateProb(h, vPaths, order, first)

C22_Witness ==
    /\ vPc = "trans"
    /\ \E order \in Perms(DOMAIN h.Transitions) :
        \E d \in DOMAIN viterbiTransition(h, vPaths, order) :
            /\ TiedAt(h, vPaths, order, d)
            /\ \E j, k \in bestCandidates(h, vPaths, order, d) :
                    pathThrough(vPaths, order, j) # pathThrough(vPaths, order, k)

(***************************************************************************)
(* C23: fastStateMap.AddLog, called on maps built by newFastStateMapFrom   *)
(* and by earlier AddLog calls.                                            *)
(***************************************************************************)
MaxCalls == 2

\* The log-values the maps and the calls are given: -Inf and three finite
\* ones.
AddLogValues == {NegInf, Norm(1, 3), Norm(1, 2), LogZero}

\* The Go maps newFastStateMapFrom is called with.
SourceMaps(hm) ==
    UNION {[S -> {NegInf, Norm(1, 2)}] : S \in SUBSET StatesOf(hm)}

MapInit ==
    /\ h \in {OneStateModel(Nil), ChainModel}
    /\ obs = <<>>
    /\ mF \in {newFastStateMapFrom(h, m) : m \in SourceMaps(h)}
    /\ mArg = <<0, NegInf>>
    /\ mCalls = 0
    /\ QueryIdle
    /\ ViterbiIdle
    /\ StreamIdle
    /\ BWIdle
    /\ TrainIdle

MapAddLog(state, x) ==
    /\ mCalls < MaxCalls
    /\ mF' = AddLog(mF, state, x)
    /\ mArg' = <<state, x>>
    /\ mCalls' = mCalls + 1
    /\ UNCHANGED <<inputVars, trainVars, queryVars, viterbiVars, streamVars, bwVars>>

MapNext == \E state \in DOMAIN mF.values, x \in AddLogValues : MapAddLog(state, x)

SpecMap == MapInit /\ [][MapNext]_vars

\* The entries of a fastStateMap: what Get, Has, Iter and Map show of it.
entriesOf(f) ==
    [i \in {j \in DOMAIN f.present : f.present[j]} |-> f.values[i]]

\* C23: AddLog(i, v) leaves the map as it is when v is -Inf; otherwise
\* entry i becomes present with value v when it was absent, and its value
\* becomes the log of the sum of the exponentials of the old value and v
\* when it was present; the other entries are unchanged and no entry goes
\* from present to absent.
C23_AddLog ==
    [][mCalls' = mCalls + 1 =>
        LET i == mArg'[1]
            v == mArg'[2]
            old == entriesOf(mF)
            new == entriesOf(mF')
        IN  /\ IsNegInf(v) => mF'.present = mF.present /\ new = old
            /\ ~IsNegInf(v) /\ i \notin DOMAIN old =>
                    i \in DOMAIN new /\ new[i] = v
            /\ ~IsNegInf(v) /\ i \in DOMAIN old =>
                    new[i] = LogOfExpSum(old[i], v)
            /\ DOMAIN old \subseteq DOMAIN new
            /\ DOMAIN new \subseteq DOMAIN old \cup {i}
            /\ \A j \in DOMAIN old \ {i} : new[j] = old[j]]_vars

C23_Witness ==
    /\ mCalls = MaxCalls
    /\ mArg[1] = 1
    /\ IsNegInf(mArg[2])
    /\ \E j \in DOMAIN mF.present : j # 1 /\ mF.present[j] /\ mF.values[j] = Norm(5, 6)
    /\ ~mF.present[1]

(***************************************************************************)
(* C24: the maps forwardProbs sends hold no -Inf.                          *)
(***************************************************************************)
\* The maps forwardProbs has sent: those the caller has received and those
\* still in the channel.
fwdDelivered == IF callee = "ForwardProbs" THEN cGot \o fwd.res.buf ELSE <<>>

\* C24: no map sent by forwardProbs holds -Inf, and the map sent for an
\* observation holds exactly the states whose running prior is present and
\* whose prior plus emission log-probability is not -Inf.
C24_ForwardNoNegInf ==
    /\ [](\A k \in 1..Len(fwdDelivered) :
            \A s \in DOMAIN fwdDelivered[k] : ~IsNegInf(fwdDelivered[k][s]))
    /\ [][Len(fwd'.res.buf) > Len(fwd.res.buf) =>
            LET item == fwd'.res.buf[Len(fwd'.res.buf)]
                emitProbs == LogProbs(h.Emitter, obs[fwd.i + 1], h.States)
            IN  \A i \in DOMAIN h.States :
                    h.States[i] \in DOMAIN item
                        <=> /\ fwd.distribution.present[i]
                            /\ ~IsNegInf(LogPlus(fwd.distribution.values[i],
                                                 emitProbs[i]))]_vars

C24_Witness ==
    /\ callee = "ForwardProbs"
    /\ Len(cGot) = 2
    /\ DOMAIN cGot[1] # {}
    /\ \E s \in DOMAIN h.Init : IsNegInf(h.Init[s]) /\ s \notin DOMAIN cGot[1]
    /\ \E k \in DOMAIN h.Transitions : IsNegInf(h.Transitions[k])
    /\ \E s \in StatesOf(h) : s \notin DOMAIN cGot[2]

(***************************************************************************)
(* C25: the rows of the conditional distributions Accumulate iterates.     *)
(***************************************************************************)
\* BaumWelch is about to run on the model h and the data set tData.
BeforeStep ==
    /\ tStep < MaxSteps
    /\ \A d \in denominators(h) : d <= MaxDenominator

\* The number of entries of condDists in Accumulate for a sample.
numCondDists(hm, sample) ==
    IF hm.TerminalState = Nil THEN Len(sample) - 1 ELSE Len(sample)

\* The from-states prevDist.Iter visits in iteration i of the loop over
\* condDists (i from 0) for the ForwardBackward f.
fromStatesAt(hm, f, i) == IterKeys(newFastStateMapFrom(hm, Dist(f, i)))

\* The total probability the entries of a fastStateMap hold.
tallySum(f) == RatSumOver(entriesOf(f), DOMAIN entriesOf(f))

\* C25: in Accumulate, for every i with a condDists entry and every
\* from-state of Dist(i), the row condDist[from] of fastCondDist(i+1) is
\* not nil and has a destination, and its probabilities sum to 1; so after
\* the Accumulate calls every from-state's total in FromStateTotals equals
\* the mass of its row of TransTally.
C25_CondDistRows ==
    BeforeStep =>
        /\ \A k \in 1..Len(tData) :
            Len(tData[k]) > 0 =>
                LET f == NewForwardBackward(h, tData[k])
                IN  \A i \in 0..(numCondDists(h, tData[k]) - 1) :
                        LET condDist == fastCondDist(f, i + 1)
                        IN  \A from \in fromStatesAt(h, f, i) :
                                /\ ~condDist[from].nil
                                /\ IterKeys(condDist[from].m) # {}
                                /\ tallySum(condDist[from].m) = LogZero
        /\ LET b == AccumulateAll(newBaumWelch(InputPtr, h), h, tData, 1)
           IN  \A from \in DOMAIN b.TransTally :
                    tallyAt(b.FromStateTotals, from) = tallySum(b.TransTally[from])

C25_Witness ==
    /\ BeforeStep
    /\ tStep >= 1
    /\ h.TerminalState # Nil
    /\ \E k \in 1..Len(tData) :
        /\ Len(tData[k]) = 2
        /\ LET f == NewForwardBackward(h, tData[k])
           IN  /\ Cardinality(fromStatesAt(h, f, 0)) = 2
               /\ \E from \in fromStatesAt(h, f, 0) :
                    Cardinality(IterKeys(fastCondDist(f, 1)[from].m)) = 2
               /\ \E from \in fromStatesAt(h, f, 1) :
                    Cardinality(IterKeys(fastCondDist(f, 2)[from].m)) = 1

(***************************************************************************)
(* C26: the initial distribution BaumWelch returns.                        *)
(***************************************************************************)
\* Accumulate adds 1 to InitTotal for the sample: it is not empty, or the
\* model has a terminal state.
countedIntoInitTotal(hm, sample) == Len(sample) > 0 \/ hm.TerminalState # Nil

\* C26 as stated: after BaumWelch over a data set with a sample counted
\* into InitTotal, the probabilities of the output Init sum to 1.
C26_InitNormalized ==
    (tStep = 1 /\ \E k \in 1..Len(tData) : countedIntoInitTotal(tFirst, tData[k]))
        => ProbSum(h.Init) = LogZero

(***************************************************************************)
(* C27: what the model BaumWelch returns gives probability to.             *)
(***************************************************************************)
\* The input model gives state s a nonzero initial probability.
initFinite(hm, s) == s \in DOMAIN hm.Init /\ ~IsNegInf(hm.Init[s])

\* The input model gives the transition tr a nonzero probability.
transFinite(hm, tr) == tr \in DOMAIN hm.Transitions /\ ~IsNegInf(hm.Transitions[tr])

\* C27 as stated: every state of the output Init has a finite entry in the
\* input Init and every output transition a finite input entry.
C27_NoNewSupport ==
    tStep >= 1 =>
        /\ \A s \in DOMAIN h.Init : initFinite(tFirst, s)
        /\ \A tr \in DOMAIN h.Transitions : transFinite(tFirst, tr)

\* C27: every transition of the output Transitions has a finite entry in
\* the input Transitions; every state of the output Init has a finite entry
\* in the input Init, or is the terminal state and the data set holds an
\* empty sequence.
C27_NoNewSupportButTerminal ==
    tStep >= 1 =>
        /\ \A s \in DOMAIN h.Init :
                \/ initFinite(tFirst, s)
                \/ /\ s = tFirst.TerminalState
                   /\ \E k \in 1..Len(tData) : Len(tData[k]) = 0
        /\ \A tr \in DOMAIN h.Transitions : transFinite(tFirst, tr)

C27_Witness ==
    /\ tStep >= 1
    /\ tFirst.TerminalState \in DOMAIN h.Init
    /\ ~initFinite(tFirst, tFirst.TerminalState)
    /\ \E k \in 1..Len(tData) : Len(tData[k]) > 0
    /\ \E tr \in DOMAIN tFirst.Transitions :
            IsNegInf(tFirst.Transitions[tr]) /\ tr \notin DOMAIN h.Transitions
    /\ DOMAIN h.Transitions # {}

(***************************************************************************)
(* C28: the length of the sequence MostLikely returns.                     *)
(***************************************************************************)
\* C28 as stated: MostLikely returns nil or a sequence of exactly len(obs)
\* states.
C28_ResultLength ==
    vPc = "done" => vResult.nil \/ Len(vResult.seq) = Len(obs)

(***************************************************************************)
(* C29: the normalizer of Dist.                                            *)
(***************************************************************************)
\* probsSum in Dist(t) when its first loop is over.
distNormalizer(f, t) ==
    LET joint == DistUnnormalized(f, t)
    IN  sumLogs(joint, DOMAIN joint, NegInf)

\* C29: for a non-empty sequence the normalizer Dist(t) subtracts is the
\* same for every t and equals LogLikelihood(); Dist(t) is what is left of
\* the joint values after subtracting it, and is empty for one t exactly
\* when it is empty for every t.
C29_NormalizerIsLikelihood ==
    (pc \in {"ready", "Dist", "fb.LogLikelihood"} /\ Len(obs) > 0) =>
        LET ll == ForwardBackward_LogLikelihood(fb).val
        IN  /\ \A t \in 0..(Len(obs) - 1) :
                /\ distNormalizer(fb, t) = ll
                /\ (DOMAIN Dist(fb, t) = {}) <=> (DOMAIN Dist(fb, 0) = {})
                /\ (DOMAIN Dist(fb, t) = {}) <=> IsNegInf(ll)
            /\ pc = "Dist" =>
                qDist = [s \in DOMAIN DistUnnormalized(fb, qT) |->
                            LogMinus(DistUnnormalized(fb, qT)[s], ll)]
            /\ pc = "fb.LogLikelihood" => qLL.val = distNormalizer(fb, 0)

C29_Witness ==
    /\ pc = "Dist"
    /\ Len(obs) = 2
    /\ qT = 0
    /\ h.TerminalState # Nil
    /\ Cardinality(DOMAIN qDist) = 2
    /\ Cardinality(DOMAIN Dist(fb, 1)) = 1
    /\ DOMAIN fb.ForwardOut[1] = DOMAIN fb.ForwardOut[2]
    /\ DOMAIN fb.BackwardOut[1] # DOMAIN fb.BackwardOut[2]

(***************************************************************************)
(* C30: the model BaumWelch returns and the scheduling of its workers.     *)
(***************************************************************************)
\* The samples sent, in each order they can be taken in.
orderingsOf(samples) ==
    {[k \in 1..Len(samples) |-> samples[order[k]]] : order \in Perms(1..Len(samples))}

\* C30: whatever the parallelism, whichever worker took which sample and in
\* whatever order the critical sections ran, the tallies Normalize starts
\* from are those of one worker accumulating the samples one after another,
\* in any order, and the model returned is the one that gives.
C30_SchedulingIndependent ==
    /\ bwPc = "normalize" =>
            \A samples \in orderingsOf(sentLog) :
                Tallies(bw) = Tallies(AccumulateAll(newBaumWelch(InputPtr, h), h, samples, 1))
    /\ bwPc = "returned" =>
            \A samples \in orderingsOf(sentLog) :
                Deref(mem, ret) = BaumWelchOf(h, samples)

C30_Witness ==
    /\ bwPc = "returned"
    /\ parallelism = 2
    /\ Len(sentLog) = 2
    /\ Len(sentLog[1]) = 2
    /\ Len(sentLog[2]) = 1
    /\ accLog[1].id = 2
    /\ accLog[1].by # accLog[2].by
    /\ BaumWelchOf(h, <<sentLog[1]>>) # BaumWelchOf(h, <<sentLog[2]>>)

=============================================================================
